---- MODULE Spec2Model ----
(***************************************************************************)
(* Model of the request gates of Django-Middleware-0x03/chats/middleware.py *)
(* RestrictAccessByTimeMiddleware, OffensiveLanguageMiddleware and          *)
(* RolepermissionMiddleware, composed around a view handler; of the         *)
(* decorators of python-decorators-0x01; of ConversationViewSet and         *)
(* MessageViewSet in messaging_app/chats/views.py and change_password in    *)
(* messaging_app/chats/auth.py; and of seed.insert_data and the batch       *)
(* generators of python-generators-0x00.                                    *)
(*                                                                          *)
(* Strings that the code inspects by prefix or substring (request.path,     *)
(* the X-Forwarded-For header) are sequences of tokens: "/" , "," and " "   *)
(* are tokens of their own, every other token is a maximal run of other     *)
(* characters.  All patterns of the code start and end with "/", so prefix  *)
(* and substring tests on token sequences agree with those on the strings.  *)
(***************************************************************************)
EXTENDS Integers, Sequences, FiniteSets, TLC

VARIABLES
    now,                \* the process clock, time.time(), in seconds
    ip_message_counts,  \* OffensiveLanguageMiddleware.ip_message_counts
    request,            \* the request handled last (NoRequest before the first)
    current_hour,       \* local hour read by the time gate for that request
    entry,              \* which middleware that request entered at
    response,           \* its outcome: "none", "200", "403" or "raise"
    denied_by,          \* the middleware that produced the 403, or "none"
    handler_calls,      \* how often the view handler ran for it
    log,                \* log records written while handling it
    visited,            \* middlewares whose __call__ ran for it, in order
    pruned,             \* keys whose list was rebuilt by _clean_expired_entries
    accessed,           \* keys of ip_message_counts that were read or written
    inspected,          \* TRUE iff RolepermissionMiddleware read request.user
    lookups,            \* attributes of request.user that the role gate read
    other_request,      \* a request the time gate served just before, same hour
    other_response,     \* the outcome of that request, or "none"
    timestamps,         \* the map of a limiter that keeps plain timestamps
    shadow_response,    \* what that limiter decided for the request, or "none"
    limiter_time,       \* time.time() seen by _clean_expired_entries, or -1
    prev_counts,        \* ip_message_counts before that request
    after_prune,        \* ip_message_counts right after _clean_expired_entries
    seen,               \* matching requests of the watched client so far
    first_stamp,        \* time recorded for the first of them, or -1
    pc,                 \* per worker thread: where it is in the limiter's __call__
    local,              \* per worker thread: its local variables
    \* python-decorators-0x01: the scripts and the users.db they share
    query_cache,        \* 4-cache_query.py: the module's dict query_cache
    db,                 \* users.db: how many updates have been committed to it
    opened,             \* connections that sqlite3.connect has handed out so far
    call,               \* the decorated function called last and its arguments
    trace,              \* what that call did to the connection, in order
    outcome,            \* how that call ended: a returned value or an exception
    answered,           \* query -> the rows the first call that returned gave for it
    \* messaging_app: the conversations and the API call made last
    conversations,      \* conversation id -> set of participants (the M2M rows)
    prev_conversations, \* conversations before that call
    api_call,           \* the action of a view set called last, with its input
    api_status,         \* the HTTP status it answered with, or "none"
    messages,           \* message id -> the row of Message, or what is left of it
    prev_messages,      \* messages before that call
    \* messaging_app: the password of request.user and the call of change_password
    password,           \* user.password, the encoded password on record
    prev_password,      \* user.password before the call made last
    password_call,      \* request.data of the call of change_password made last
    password_status,    \* the HTTP status it answered with, or "none"
    \* python-generators-0x00: the table user_data, seeding and the generators
    user_data,          \* the rows of user_data, in the order SELECT * gives them
    uuid_count,         \* how many times uuid.uuid4() was called
    csv_file,           \* the rows of the CSV file insert_data read last
    rerun,              \* insert_data had read the same file the time before
    prev_user_data,     \* user_data before the run of insert_data made last
    generator,          \* the generator object a script holds: function, size, offset
    fetches,            \* the offsets of the SELECTs the generator has executed
    yielded             \* the batches the generator has yielded

vars == <<now, ip_message_counts, request, current_hour, entry, response,
          denied_by, handler_calls, log, visited, pruned, accessed, inspected,
          lookups, other_request, other_response, timestamps, shadow_response,
          limiter_time, prev_counts, after_prune, seen, first_stamp,
          pc, local,
          query_cache, db, opened, call, trace, outcome, answered,
          conversations, prev_conversations, api_call, api_status,
          messages, prev_messages,
          password, prev_password, password_call, password_status,
          user_data, uuid_count, csv_file, rerun, prev_user_data,
          generator, fetches, yielded>>

\* the variables of the middleware stack
MiddlewareVars ==
    <<now, ip_message_counts, request, current_hour, entry, response,
      denied_by, handler_calls, log, visited, pruned, accessed, inspected,
      lookups, other_request, other_response, timestamps, shadow_response,
      limiter_time, prev_counts, after_prune, seen, first_stamp, pc, local>>

\* the limiter that is run beside OffensiveLanguageMiddleware for comparison
ShadowVars == <<timestamps, shadow_response>>

\* the variables of the decorator scripts
ScriptVars == <<query_cache, db, opened, call, trace, outcome, answered>>

\* the variables of the conversation API
ChatVars == <<conversations, prev_conversations, api_call, api_status,
              messages, prev_messages>>

\* the variables of change_password
AuthVars == <<password, prev_password, password_call, password_status>>

\* the variables of seed.py and of the generators
DataVars == <<user_data, uuid_count, csv_file, rerun, prev_user_data,
              generator, fetches, yielded>>

\* what neither the middleware, the decorator scripts nor the view sets touch
Apart == <<AuthVars, DataVars>>

\* what no middleware touches
Elsewhere == <<ScriptVars, ChatVars, Apart>>

------------------------------------------------------------------------------
(* Bounds of the model *)

\* the clock runs from 0 to MaxTicks * TickSeconds
MaxTicks == 3

\* seconds between two observable clock values
TickSeconds == 30

MaxTime == MaxTicks * TickSeconds

------------------------------------------------------------------------------
(* Program constants *)

\* OffensiveLanguageMiddleware.__init__: self.time_window = 60
time_window == 60

\* OffensiveLanguageMiddleware.__init__: self.max_messages = 5
max_messages == 5

\* auth.change_password: len(new_password) < 8
min_password_length == 8

\* RestrictAccessByTimeMiddleware.__call__: allowed_start = 21
allowed_start == 21

\* RestrictAccessByTimeMiddleware.__call__: allowed_end = 18
allowed_end == 18

\* RolepermissionMiddleware.__init__: self.protected_paths
protected_paths ==
    << <<"/", "admin", "/">>,
       <<"/", "dashboard", "/">>,
       <<"/", "manage", "/">>,
       <<"/", "chats", "/", "delete", "/">>,
       <<"/", "chats", "/", "moderate", "/">>,
       <<"/", "users", "/", "manage", "/">>,
       <<"/", "api", "/", "admin", "/">>,
       <<"/", "reports", "/">> >>

\* OffensiveLanguageMiddleware._is_chat_post_request: the chat URL fragments
chat_urls ==
    << <<"/", "chats", "/">>,
       <<"/", "messages", "/">>,
       <<"/", "send_message", "/">>,
       <<"/", "api", "/", "messages", "/">> >>

------------------------------------------------------------------------------
(* Python string operations on token sequences *)

\* str.startswith
StartsWith(s, prefix) ==
    /\ Len(prefix) <= Len(s)
    /\ SubSeq(s, 1, Len(prefix)) = prefix

\* the `in` operator on strings
Contains(s, frag) ==
    \E i \in 1..(Len(s) - Len(frag) + 1) :
        SubSeq(s, i, i + Len(frag) - 1) = frag

\* str.split(',')[0]
FirstElement(s) ==
    IF \E i \in 1..Len(s) : s[i] = ","
    THEN LET i == CHOOSE k \in 1..Len(s) :
                      /\ s[k] = ","
                      /\ \A j \in 1..(k - 1) : s[j] # ","
         IN SubSeq(s, 1, i - 1)
    ELSE s

\* str.strip
Strip(s) ==
    IF \A i \in 1..Len(s) : s[i] = " "
    THEN << >>
    ELSE LET lo == CHOOSE k \in 1..Len(s) :
                       /\ s[k] # " "
                       /\ \A j \in 1..(k - 1) : s[j] = " "
             hi == CHOOSE k \in 1..Len(s) :
                       /\ s[k] # " "
                       /\ \A j \in (k + 1)..Len(s) : s[j] = " "
         IN SubSeq(s, lo, hi)

\* Python's None where a string is expected
None == <<"None">>

------------------------------------------------------------------------------
(* The state a request is handled in.  A world w is a record with one field  *)
(* per variable that a middleware can change, plus the two readings the      *)
(* environment supplies while the request is handled: w.hour, the local hour *)
(* of timezone.now(), and w.drift, the seconds by which time.time() advances *)
(* between the limiter's prune and its append.  Every middleware ends with    *)
(* `return self.get_response(request)`: w.forward = TRUE says that it did,    *)
(* and the stage it was constructed around then runs on w.                    *)

\* dict lookup on the defaultdict(list): a missing key reads as the empty list
Lookup(counts, ip) ==
    IF ip \in DOMAIN counts THEN counts[ip] ELSE << >>

\* dict item assignment: counts[ip] = value
Store(counts, ip, value) ==
    [k \in (DOMAIN counts) \cup {ip} |-> IF k = ip THEN value ELSE counts[k]]

\* variant: the comparison written with <=
InWindow_inclusive(current_time, timestamp) ==
    current_time - timestamp <= time_window

\* variant: the filter keeps every entry
InWindow_always(current_time, timestamp) ==
    TRUE

\* the condition of the list comprehension in _clean_expired_entries
InWindow(current_time, timestamp) ==
    current_time - timestamp < time_window

\* variant: the prune also evicts every other client whose entries have all
\* expired
_clean_expired_entries_evicting(counts, ip, current_time) ==
    LET kept == Store(counts, ip,
                      SelectSeq(Lookup(counts, ip),
                                LAMBDA e : InWindow(current_time, e[1])))
        live == { k \in DOMAIN kept :
                    \/ k = ip
                    \/ \E i \in 1..Len(kept[k]) :
                          InWindow(current_time, kept[k][i][1]) }
    IN [k \in live |-> kept[k]]

\* OffensiveLanguageMiddleware._clean_expired_entries
_clean_expired_entries(counts, ip, current_time) ==
    Store(counts, ip,
          SelectSeq(Lookup(counts, ip),
                    LAMBDA e : InWindow(current_time, e[1])))

\* sum(count for _, count in entries)
RECURSIVE SumCounts(_)
SumCounts(entries) ==
    IF entries = << >> THEN 0
    ELSE entries[1][2] + SumCounts(Tail(entries))

\* variant: the comparison written with >
OverLimit_strict(total_messages) ==
    total_messages > max_messages

\* the comparison that ends _is_rate_limited
OverLimit(total_messages) ==
    total_messages >= max_messages

\* OffensiveLanguageMiddleware._is_rate_limited: the cleaned map and the verdict
_is_rate_limited(counts, ip, current_time) ==
    LET cleaned == _clean_expired_entries(counts, ip, current_time)
    IN [counts  |-> cleaned,
        limited |-> OverLimit(SumCounts(cleaned[ip]))]

\* variant: the method is not looked at
_is_chat_post_request_any_method(req) ==
    \E i \in 1..Len(chat_urls) : Contains(req.path, chat_urls[i])

\* OffensiveLanguageMiddleware._is_chat_post_request
_is_chat_post_request(req) ==
    LET is_post == req.method = "POST"
        is_chat_url == \E i \in 1..Len(chat_urls) : Contains(req.path, chat_urls[i])
    IN is_post /\ is_chat_url

\* variant: the address of the connection is taken whenever there is one
_get_client_ip_remote_first(req) ==
    LET x_forwarded_for == req.HTTP_X_FORWARDED_FOR
    IN IF req.REMOTE_ADDR # None
       THEN req.REMOTE_ADDR
       ELSE Strip(FirstElement(x_forwarded_for))

\* OffensiveLanguageMiddleware._get_client_ip
_get_client_ip(req) ==
    LET x_forwarded_for == req.HTTP_X_FORWARDED_FOR
    IN IF x_forwarded_for # None /\ x_forwarded_for # << >>
       THEN Strip(FirstElement(x_forwarded_for))
       ELSE req.REMOTE_ADDR

\* user_info of the two logging gates
UserInfo(req) ==
    IF req.user.present /\ req.user.is_authenticated
    THEN (IF req.user.username # "" THEN req.user.username ELSE "User(id)")
    ELSE "Anonymous"

\* the view behind the middlewares: answers every request it is given
Handler(req, w) ==
    [w EXCEPT !.handler_calls = @ + 1, !.response = "200", !.forward = FALSE]

\* return self.get_response(request): the wrapped stage takes over
get_response(w) ==
    [w EXCEPT !.forward = TRUE]

\* HttpResponseForbidden returned by middleware mw
Forbidden(w, mw) ==
    [w EXCEPT !.response = "403", !.denied_by = mw]

\* variant: the record is filtered out before it reaches the file
LogWarning_dropped(w, record) ==
    w

\* self.logger.warning(...): one record goes to the gate's log file
LogWarning(w, record) ==
    [w EXCEPT !.log = Append(@, record)]

\* variant: the comparisons written with <= and >=
OutsideAllowedHours_inclusive(hour) ==
    hour <= allowed_start /\ hour >= allowed_end

\* the hour test of RestrictAccessByTimeMiddleware.__call__
OutsideAllowedHours(hour) ==
    hour < allowed_start /\ hour > allowed_end

\* variant: the 403 is built and logged but not returned, and the request goes on
RestrictAccessByTime_call_fallthrough(req, w0) ==
    LET w == [w0 EXCEPT !.visited = Append(@, "RestrictAccessByTimeMiddleware")]
    IN IF OutsideAllowedHours(w.hour)
       THEN get_response(Forbidden(LogWarning(w,
                         [logger    |-> "access_restriction_logger",
                          user_info |-> UserInfo(req),
                          ip        |-> req.REMOTE_ADDR]),
                      "RestrictAccessByTimeMiddleware"))
       ELSE get_response(w)

\* variant: staff members are let through at every hour
RestrictAccessByTime_call_staff_exempt(req, w0) ==
    LET w == [w0 EXCEPT !.visited = Append(@, "RestrictAccessByTimeMiddleware")]
    IN IF OutsideAllowedHours(w.hour) /\ ~(req.user.present /\ req.user.is_staff)
       THEN Forbidden(LogWarning(w,
                         [logger    |-> "access_restriction_logger",
                          user_info |-> UserInfo(req),
                          ip        |-> req.REMOTE_ADDR]),
                      "RestrictAccessByTimeMiddleware")
       ELSE get_response(w)

\* RestrictAccessByTimeMiddleware.__call__
RestrictAccessByTime_call(req, w0) ==
    LET w == [w0 EXCEPT !.visited = Append(@, "RestrictAccessByTimeMiddleware")]
    IN IF OutsideAllowedHours(w.hour)
       THEN Forbidden(LogWarning(w,
                         [logger    |-> "access_restriction_logger",
                          user_info |-> UserInfo(req),
                          ip        |-> req.REMOTE_ADDR]),
                      "RestrictAccessByTimeMiddleware")
       ELSE get_response(w)

\* variant: a request is entered with a count of two
NewEntry_batched(current_time) ==
    <<current_time, 2>>

\* the tuple appended for an admitted request: (current_time, 1)
NewEntry(current_time) ==
    <<current_time, 1>>

\* OffensiveLanguageMiddleware.__call__
OffensiveLanguage_call(req, w0) ==
    LET w == [w0 EXCEPT !.visited = Append(@, "OffensiveLanguageMiddleware")]
    IN IF _is_chat_post_request(req)
       THEN LET ip == _get_client_ip(req)
                check == _is_rate_limited(w.ip_message_counts, ip, w.now)
                w1 == [w EXCEPT !.ip_message_counts = check.counts,
                                !.after_prune = check.counts,
                                !.pruned = @ \cup {ip},
                                !.accessed = @ \cup {ip},
                                !.limiter_time = w.now]
            IN IF check.limited
               THEN Forbidden(LogWarning(w1,
                                 [logger    |-> "rate_limiting_logger",
                                  user_info |-> UserInfo(req),
                                  ip        |-> ip]),
                              "OffensiveLanguageMiddleware")
               ELSE LET current_time == w.now + w.drift
                    IN get_response(
                         [w1 EXCEPT !.now = current_time,
                                    !.ip_message_counts =
                                        Store(@, ip, Append(@[ip], NewEntry(current_time)))])
       ELSE get_response(w)

\* variant: the custom role field is not consulted
_has_admin_permissions_no_role(user) ==
    IF ~user.is_authenticated THEN FALSE
    ELSE IF user.is_superuser THEN TRUE
    ELSE IF user.is_staff THEN TRUE
    ELSE user.has_groups /\ ("moderator" \in user.groups \/ "admin" \in user.groups)

\* what the function has touched of user once it is past the flags
FlagLookups == {"is_authenticated", "is_superuser", "is_staff"}

\* hasattr(user, 'groups'), and user.groups.values_list(...) when it is there
GroupLookups(user) ==
    IF user.has_groups THEN {"hasattr:groups", "groups"} ELSE {"hasattr:groups"}

\* hasattr(user, 'role'), and user.role when it is there
RoleLookups(user) ==
    IF user.has_role THEN {"hasattr:role", "role"} ELSE {"hasattr:role"}

\* 'moderator' in user_groups or 'admin' in user_groups
GroupMatches(user) ==
    user.has_groups /\ ("moderator" \in user.groups \/ "admin" \in user.groups)

\* variant: the groups are looked up before the staff flag is tested
PermissionCheck_groups_first(user) ==
    IF ~user.is_authenticated
    THEN [granted |-> FALSE, lookups |-> {"is_authenticated"}]
    ELSE IF user.is_superuser
    THEN [granted |-> TRUE, lookups |-> {"is_authenticated", "is_superuser"}]
    ELSE IF GroupMatches(user)
    THEN [granted |-> TRUE,
          lookups |-> {"is_authenticated", "is_superuser"} \cup GroupLookups(user)]
    ELSE IF user.is_staff
    THEN [granted |-> TRUE, lookups |-> FlagLookups \cup GroupLookups(user)]
    ELSE IF user.has_role
    THEN [granted |-> user.role \in {"admin", "moderator"},
          lookups |-> FlagLookups \cup GroupLookups(user) \cup RoleLookups(user)]
    ELSE [granted |-> FALSE,
          lookups |-> FlagLookups \cup GroupLookups(user) \cup RoleLookups(user)]

\* RolepermissionMiddleware._has_admin_permissions, statement by statement:
\* the value it returns and what it has read ("groups", "role", a flag) or
\* probed with hasattr ("hasattr:groups", "hasattr:role") of user by then
PermissionCheck(user) ==
    IF ~user.is_authenticated
    THEN [granted |-> FALSE, lookups |-> {"is_authenticated"}]
    ELSE IF user.is_superuser
    THEN [granted |-> TRUE, lookups |-> {"is_authenticated", "is_superuser"}]
    ELSE IF user.is_staff
    THEN [granted |-> TRUE, lookups |-> FlagLookups]
    ELSE IF GroupMatches(user)
    THEN [granted |-> TRUE, lookups |-> FlagLookups \cup GroupLookups(user)]
    ELSE IF user.has_role
    THEN [granted |-> user.role \in {"admin", "moderator"},
          lookups |-> FlagLookups \cup GroupLookups(user) \cup RoleLookups(user)]
    ELSE [granted |-> FALSE,
          lookups |-> FlagLookups \cup GroupLookups(user) \cup RoleLookups(user)]

\* RolepermissionMiddleware._has_admin_permissions
_has_admin_permissions(user) ==
    IF ~user.is_authenticated THEN FALSE
    ELSE IF user.is_superuser THEN TRUE
    ELSE IF user.is_staff THEN TRUE
    ELSE IF user.has_groups /\ ("moderator" \in user.groups \/ "admin" \in user.groups)
         THEN TRUE
    ELSE IF user.has_role THEN user.role \in {"admin", "moderator"}
    ELSE FALSE

\* any(request.path.startswith(protected) for protected in self.protected_paths)
IsProtected(path) ==
    \E i \in 1..Len(protected_paths) : StartsWith(path, protected_paths[i])

\* user = request.user; self._has_admin_permissions(user) reads its attributes
Inspect(w, user) ==
    [w EXCEPT !.inspected = TRUE, !.lookups = PermissionCheck(user).lookups]

\* variant: the 403 is built but not returned, and the request goes on
Rolepermission_call_fallthrough(req, w0) ==
    LET w == [w0 EXCEPT !.visited = Append(@, "RolepermissionMiddleware")]
    IN IF IsProtected(req.path)
       THEN IF ~req.user.present
            THEN [w EXCEPT !.inspected = TRUE, !.response = "raise"]
            ELSE IF ~_has_admin_permissions(req.user)
                 THEN get_response(Forbidden(Inspect(w, req.user),
                                             "RolepermissionMiddleware"))
                 ELSE get_response(Inspect(w, req.user))
       ELSE get_response(w)

\* RolepermissionMiddleware.__call__
Rolepermission_call(req, w0) ==
    LET w == [w0 EXCEPT !.visited = Append(@, "RolepermissionMiddleware")]
    IN IF IsProtected(req.path)
       THEN IF ~req.user.present
            THEN [w EXCEPT !.inspected = TRUE, !.response = "raise"]
            ELSE IF ~_has_admin_permissions(req.user)
                 THEN Forbidden(Inspect(w, req.user), "RolepermissionMiddleware")
                 ELSE get_response(Inspect(w, req.user))
       ELSE get_response(w)

\* a stage runs if the middleware around it forwarded the request
Forwarded(w) ==
    w.forward

\* the stage starts with the forwarding consumed
Enter(w) ==
    [w EXCEPT !.forward = FALSE]

\* the middleware stack around the view, outermost first
MiddlewareChain(req, w) ==
    LET w1 == RestrictAccessByTime_call(req, w)
        w2 == OffensiveLanguage_call(req, Enter(w1))
        w3 == Rolepermission_call(req, Enter(w2))
    IN IF ~Forwarded(w1) THEN w1
       ELSE IF ~Forwarded(w2) THEN w2
       ELSE IF ~Forwarded(w3) THEN w3
       ELSE Handler(req, w3)

\* one middleware constructed directly around the view
AroundHandler(req, w) ==
    IF Forwarded(w) THEN Handler(req, w) ELSE w

------------------------------------------------------------------------------
(* Inputs *)

\* request.user as the gates see it; present = FALSE: the request has no user
User(present, auth, super, staff, has_groups, groups, has_role, role, name) ==
    [present |-> present, is_authenticated |-> auth, is_superuser |-> super,
     is_staff |-> staff, has_groups |-> has_groups, groups |-> groups,
     has_role |-> has_role, role |-> role, username |-> name]

NoUser == User(FALSE, FALSE, FALSE, FALSE, FALSE, {}, FALSE, "", "")

\* django.contrib.auth.models.AnonymousUser
AnonymousUser == User(TRUE, FALSE, FALSE, FALSE, TRUE, {}, FALSE, "", "")

PlainUser == User(TRUE, TRUE, FALSE, FALSE, TRUE, {}, FALSE, "", "alice")

StaffUser == User(TRUE, TRUE, FALSE, TRUE, TRUE, {}, FALSE, "", "bob")

\* every principal the role gate can tell apart
AllUsers ==
    {NoUser} \cup
    { User(TRUE, a, su, st, hg, g, hr, r, n) :
        a \in BOOLEAN, su \in BOOLEAN, st \in BOOLEAN,
        hg \in {TRUE}, g \in {{}, {"moderator"}, {"admin"}, {"editors"}},
        hr \in {TRUE}, r \in {"admin", "moderator", "member"},
        n \in {"alice"} } \cup
    { User(TRUE, a, su, st, FALSE, {}, FALSE, "", "") :
        a \in BOOLEAN, su \in BOOLEAN, st \in BOOLEAN } \cup
    \* django.contrib.auth.models.User: groups, and no role field
    { User(TRUE, a, su, st, TRUE, g, FALSE, "", "carol") :
        a \in BOOLEAN, su \in BOOLEAN, st \in BOOLEAN,
        g \in {{}, {"moderator"}, {"editors"}} }

AllPaths ==
    { <<"/", "public", "/">>,
      <<"/", "chats", "/">>,
      <<"/", "api", "/", "messages", "/", "7", "/">>,
      <<"/", "admin", "/", "x">>,
      <<"/", "admin">>,
      <<"/", "administrator", "/">>,
      <<"/", "api", "/", "admin", "/">>,
      <<"/", "x", "/", "admin", "/">>,
      <<"/", "chats", "/", "delete", "/", "3">>,
      <<"/", "reports", "/">> }

Methods == {"GET", "POST"}

Hours == 0..23

ClientA == <<"10.0.0.1">>

ClientB == <<"10.0.0.2">>

Request(method, path, xff, remote, user) ==
    [method |-> method, path |-> path, HTTP_X_FORWARDED_FOR |-> xff,
     REMOTE_ADDR |-> remote, user |-> user]

NoRequest == Request("", << >>, None, None, NoUser)

\* requests sent through the whole stack
Requests ==
    { Request(m, p, x, a, u) :
        m \in Methods,
        p \in { <<"/", "public", "/">>, <<"/", "chats", "/">>,
                <<"/", "chats", "/", "delete", "/", "3">> },
        x \in { None, <<" ", "10.0.0.1", " ", ",", "10.0.0.9">> },
        a \in { ClientA, ClientB },
        u \in { AnonymousUser, StaffUser } }

\* hours at which the stack is exercised
StackHours == {18, 19}

\* requests given to one gate on its own
GateRequests ==
    { Request(m, p, None, ClientA, u) :
        m \in Methods, p \in AllPaths, u \in AllUsers }

\* clock advance between the limiter's two readings of time.time()
Drifts == {0, TickSeconds}

------------------------------------------------------------------------------
(* python-decorators-0x01: with_db_connection, transactional,                *)
(* retry_on_failure and cache_query, and the three functions they decorate.  *)
(* A process record d holds what a call can change: the module's             *)
(* query_cache, the database, the connections handed out, the events on the  *)
(* connection so far and the outcome of the statement executed last.  The    *)
(* primitives of sqlite3 (connect, BEGIN, commit, rollback, close) do not    *)
(* fail; a statement run through a cursor returns or raises an sqlite3.Error, *)
(* which is an Exception, as the environment env of the call decides.        *)

\* calls of decorated functions in one run
MaxCalls == 3

\* the largest retries argument given to retry_on_failure
MaxRetries == 3

\* the query strings passed to fetch_users_with_cache
Queries ==
    { <<"SELECT", " ", "*", " ", "FROM", " ", "users">>,
      <<"SELECT", " ", "name", " ", "FROM", " ", "users">> }

\* the n-th object returned by sqlite3.connect('users.db')
Connection(n) == <<"sqlite3.Connection", ToString(n)>>

\* **kwargs: a dict from the given names to value
KwArgs(names, value) == [k \in names |-> value]

NoOutcome == [kind |-> "none", value |-> None]

NoCall == [func |-> "none", positional |-> FALSE, query |-> None,
           repeated |-> FALSE, retries |-> 0, raises |-> << >>]

\* return value
Return(d, value) == [d EXCEPT !.outcome = [kind |-> "return", value |-> value]]

\* raise exception
Raise(d, exception) == [d EXCEPT !.outcome = [kind |-> "raise", value |-> exception]]

\* the exception of an except clause that does not re-raise is dropped
Swallow(d) == [d EXCEPT !.outcome = NoOutcome]

\* op happens on the connection object conn
Event(d, op, conn) == [d EXCEPT !.trace = Append(@, [op |-> op, conn |-> conn])]

\* how often op is in a trace
RECURSIVE Count(_, _)
Count(events, op) ==
    IF events = << >> THEN 0
    ELSE (IF events[1].op = op THEN 1 ELSE 0) + Count(Tail(events), op)

\* cursor.fetchall(): the rows the query selects from the database as it is
Rows(query, version) == <<"rows of">> \o query \o <<"at", ToString(version)>>

\* 4-cache_query.py: the body of fetch_users_with_cache(conn, query)
fetch_users_with_cache_func(conn, query, env, d) ==
    LET d1 == Event(d, "fetch_users_with_cache", conn)
    IN IF env.raises[1]
       THEN Raise(d1, <<"sqlite3.Error">>)
       ELSE Return(d1, Rows(query, d1.db))

\* 4-cache_query.py: cache_query, the wrapper around func(*args, **kwargs)
cache_query(args, kwargs, env, d) ==
    LET query == IF "query" \in DOMAIN kwargs THEN kwargs["query"]
                 ELSE IF args # << >> THEN args[1]
                 ELSE None
    IN IF query \in DOMAIN d.query_cache
       THEN Return(d, d.query_cache[query])
       ELSE LET d1 == fetch_users_with_cache_func(
                          args[1],
                          IF "query" \in DOMAIN kwargs THEN kwargs["query"] ELSE args[2],
                          env, d)
            IN IF d1.outcome.kind = "raise"
               THEN d1
               ELSE [d1 EXCEPT !.query_cache = Store(@, query, d1.outcome.value)]

\* 3-retry_on_failure.py: the body of fetch_users_with_retry(conn); raises
\* says for each execution in turn whether its statement fails
fetch_users_with_retry_func(conn, env, d) ==
    LET d1   == Event(d, "fetch_users_with_retry", conn)
        nth  == Count(d1.trace, "fetch_users_with_retry")
    IN IF env.raises[nth]
       THEN Raise(d1, <<"sqlite3.Error">>)
       ELSE Return(d1, <<"rows of execution", ToString(nth)>>)

\* variant: when every attempt has failed the wrapper just ends
AllAttemptsFailed_silently(d) ==
    Return(d, None)

\* raise Exception("All attempts failed")
AllAttemptsFailed(d) ==
    Raise(d, <<"Exception", "All attempts failed">>)

\* 3-retry_on_failure.py: retry_on_failure(retries, delay), the wrapper's
\* `for attempt in range(retries)` from attempt on, and the raise after it
RECURSIVE retry_on_failure(_, _, _, _, _)
retry_on_failure(attempt, retries, args, env, d) ==
    IF attempt >= retries
    THEN AllAttemptsFailed(d)
    ELSE LET d1 == fetch_users_with_retry_func(args[1], env, d)
         IN IF d1.outcome.kind = "return"
            THEN d1
            ELSE retry_on_failure(
                     attempt + 1, retries, args, env,
                     IF attempt < retries - 1
                     THEN Event(Swallow(d1), "sleep", None)
                     ELSE Swallow(d1))

\* 2-transactional.py: the body of update_user_email(conn, user_id, new_email);
\* the UPDATE is pending until the transaction ends
update_user_email_func(conn, env, d) ==
    LET d1 == Event(d, "update_user_email", conn)
    IN IF env.raises[1]
       THEN Raise(d1, <<"sqlite3.Error">>)
       ELSE Return([d1 EXCEPT !.pending = @ + 1], None)

\* conn.commit(): what is pending becomes part of the database
commit(d, conn) ==
    Event([d EXCEPT !.db = @ + d.pending, !.pending = 0], "commit", conn)

\* conn.rollback(): what is pending is dropped
rollback(d, conn) ==
    Event([d EXCEPT !.pending = 0], "rollback", conn)

\* variant: the commit has moved to a finally clause
transactional_commit_finally(args, kwargs, env, d) ==
    LET conn == args[1]
        d1 == Event(d, "BEGIN", conn)
        d2 == update_user_email_func(conn, env, d1)
    IN IF d2.outcome.kind = "raise"
       THEN commit(rollback(d2, conn), conn)
       ELSE commit(d2, conn)

\* 2-transactional.py: transactional, the wrapper(conn, *args, **kwargs)
transactional(args, kwargs, env, d) ==
    LET conn == args[1]
        d1 == Event(d, "BEGIN", conn)
        d2 == update_user_email_func(conn, env, d1)
    IN IF d2.outcome.kind = "raise"
       THEN rollback(d2, conn)
       ELSE commit(d2, conn)

\* the function that with_db_connection was applied to, by the name of the
\* function decorated: func(conn, *args, **kwargs)
Decorated(func, args, kwargs, env, d) ==
    CASE func = "fetch_users_with_cache" -> cache_query(args, kwargs, env, d)
      [] func = "fetch_users_with_retry" ->
             retry_on_failure(0, env.retries, args, env, d)
      [] func = "update_user_email" -> transactional(args, kwargs, env, d)

\* variant: the connection is closed after a normal return only
with_db_connection_no_finally(func, args, kwargs, env, d) ==
    LET conn == Connection(d.opened + 1)
        d1 == Event([d EXCEPT !.opened = @ + 1], "connect", conn)
        d2 == Decorated(func, <<conn>> \o args, kwargs, env, d1)
    IN IF d2.outcome.kind = "return" THEN Event(d2, "close", conn) ELSE d2

\* with_db_connection, the wrapper(*args, **kwargs): connect, call, and
\* close in the finally clause whatever the call did
with_db_connection(func, args, kwargs, env, d) ==
    LET conn == Connection(d.opened + 1)
        d1 == Event([d EXCEPT !.opened = @ + 1], "connect", conn)
        d2 == Decorated(func, <<conn>> \o args, kwargs, env, d1)
    IN Event(d2, "close", conn)

\* the three decorated functions as their modules export them
fetch_users_with_cache(args, kwargs, env, d) ==
    with_db_connection("fetch_users_with_cache", args, kwargs, env, d)

fetch_users_with_retry(env, d) ==
    with_db_connection("fetch_users_with_retry", << >>, KwArgs({}, None), env, d)

update_user_email(kwargs, env, d) ==
    with_db_connection("update_user_email", << >>, kwargs, env, d)

------------------------------------------------------------------------------
(* messaging_app/chats/views.py: ConversationViewSet *)

(* The database holds the users and, per conversation, the rows of the       *)
(* participants relation.  An action of the view set is a function of the    *)
(* conversations, the authenticated requester and the request data, and      *)
(* yields the conversations afterwards and the HTTP status of the response;  *)
(* an exception that leaves the view is the status "500".                    *)

\* conversations in one run
MaxConversations == 2

\* the user_id values of the rows of User
Users == { <<"uuid-1">>, <<"uuid-2">>, <<"uuid-3">> }

\* a well-formed UUID that is no user's
UnknownUser == <<"uuid-9">>

\* a string that is not a UUID
Malformed == <<"abc">>

NoApiCall == [action |-> "none", requester |-> None, pk |-> 0,
              user_id |-> None, participant_ids |-> << >>]

\* messages in one run
MaxMessages == 2

\* the elements of a list
Range(list) == { list[i] : i \in 1..Len(list) }

\* self.get_queryset(): the conversations the requester participates in
get_queryset(convs, requester) ==
    { pk \in DOMAIN convs : requester \in convs[pk] }

\* the outcome of an action: the conversations after it and the status
Response(convs, status) == [conversations |-> convs, status |-> status]

\* ConversationViewSet.create.  request.user.user_id is a UUID and the ids
\* in request.data are strings, so `not in` holds and the requester's id is
\* appended in every call; a list that names the requester already, or names
\* an unknown user, then has more entries than users found and is refused.
\* For a list of two the view goes on to models.Count, and views.py imports
\* no name `models`: the NameError leaves the view before anything is saved.
\* Otherwise serializer.save() inserts the conversation and
\* conversation.participants.set(participants) gives it the users found.
create(convs, requester, data) ==
    LET participant_ids == Append(data, requester)
        participants == Range(participant_ids) \cap Users
    IN IF Cardinality(participants) # Len(participant_ids)
       THEN Response(convs, "400")
       ELSE IF Len(participant_ids) = 2
       THEN Response(convs, "500")
       ELSE Response(Append(convs, participants), "201")

\* ConversationViewSet.add_participant
add_participant(convs, requester, pk, user_id) ==
    IF pk \notin get_queryset(convs, requester) THEN Response(convs, "404")
    ELSE IF user_id = None THEN Response(convs, "400")
    ELSE IF user_id = Malformed THEN Response(convs, "500")
    ELSE IF user_id \notin Users THEN Response(convs, "404")
    ELSE IF user_id \in convs[pk] THEN Response(convs, "400")
    ELSE Response([convs EXCEPT ![pk] = @ \cup {user_id}], "200")

\* variant: the test for the last participant is left out
remove_participant_unguarded(convs, requester, pk, user_id) ==
    IF pk \notin get_queryset(convs, requester) THEN Response(convs, "404")
    ELSE IF user_id = None THEN Response(convs, "400")
    ELSE IF user_id = Malformed THEN Response(convs, "500")
    ELSE IF user_id \notin Users THEN Response(convs, "404")
    ELSE Response([convs EXCEPT ![pk] = @ \ {user_id}], "200")

\* ConversationViewSet.remove_participant: get_object() raises Http404 for a
\* conversation outside get_queryset(); `not user_id`; User.objects.get raises
\* ValidationError for a string that is no UUID and DoesNotExist for a UUID of
\* no user; then the count test, and participants.remove(user_to_remove)
remove_participant(convs, requester, pk, user_id) ==
    IF pk \notin get_queryset(convs, requester) THEN Response(convs, "404")
    ELSE IF user_id = None THEN Response(convs, "400")
    ELSE IF user_id = Malformed THEN Response(convs, "500")
    ELSE IF user_id \notin Users THEN Response(convs, "404")
    ELSE IF Cardinality(convs[pk]) <= 1 THEN Response(convs, "400")
    ELSE Response([convs EXCEPT ![pk] = @ \ {user_id}], "200")

\* MessageViewSet.get_queryset(): the messages that exist in conversations
\* the requester participates in
MessageViewSet_get_queryset(convs, msgs, requester) ==
    { pk \in DOMAIN msgs :
        /\ msgs[pk].exists
        /\ msgs[pk].conversation \in get_queryset(convs, requester) }

\* the outcome of an action of MessageViewSet
MessageResponse(msgs, status) == [messages |-> msgs, status |-> status]

\* MessageViewSet.create, for a conversation that exists and a body that is
\* not empty (what serializer.is_valid lets through)
MessageViewSet_create(convs, msgs, requester, conversation, message_body) ==
    IF requester \notin convs[conversation]
    THEN MessageResponse(msgs, "403")
    ELSE MessageResponse(
             Append(msgs, [conversation |-> conversation, sender |-> requester,
                           message_body |-> message_body, exists |-> TRUE]),
             "201")

\* variant: the test for the sender is left out
edit_by_any_participant(convs, msgs, requester, pk, new_body) ==
    IF pk \notin MessageViewSet_get_queryset(convs, msgs, requester)
    THEN MessageResponse(msgs, "404")
    ELSE IF new_body # None /\ new_body # << >>
    THEN MessageResponse([msgs EXCEPT ![pk].message_body = new_body], "200")
    ELSE MessageResponse(msgs, "200")

\* MessageViewSet.edit: get_object() raises Http404 outside get_queryset()
edit(convs, msgs, requester, pk, new_body) ==
    IF pk \notin MessageViewSet_get_queryset(convs, msgs, requester)
    THEN MessageResponse(msgs, "404")
    ELSE IF msgs[pk].sender # requester
    THEN MessageResponse(msgs, "403")
    ELSE IF new_body # None /\ new_body # << >>
    THEN MessageResponse([msgs EXCEPT ![pk].message_body = new_body], "200")
    ELSE MessageResponse(msgs, "200")

\* MessageViewSet.destroy; super().destroy deletes the row and answers 204
destroy(convs, msgs, requester, pk) ==
    IF pk \notin MessageViewSet_get_queryset(convs, msgs, requester)
    THEN MessageResponse(msgs, "404")
    ELSE IF msgs[pk].sender # requester
    THEN MessageResponse(msgs, "403")
    ELSE MessageResponse([msgs EXCEPT ![pk].exists = FALSE,
                                      ![pk].message_body = << >>], "204")

\* request.data.get('message_body') of an edit: absent, empty, a new text
NewBodies == { None, << >>, <<"edited">> }

\* request.data['participant_ids'] of a create: absent, or up to two ids
ParticipantLists ==
    { << >> } \cup
    { <<a>> : a \in Users \cup {UnknownUser} } \cup
    { <<a, b>> : a \in Users \cup {UnknownUser}, b \in Users \cup {UnknownUser} }

\* request.data.get('user_id'): absent, a user, a UUID of no user, no UUID
UserIds == {None} \cup Users \cup {UnknownUser, Malformed}

------------------------------------------------------------------------------
(* python-generators-0x00: seed.insert_data and the generators               *)
(* stream_users_in_batches and lazy_pagination.  user_data is the sequence of *)
(* its rows in the order in which SELECT * returns them, which is taken to be *)
(* the same for every query on a table that has not changed; an INSERT puts   *)
(* its row at the end.  The CSV file exists and has a header line, the        *)
(* database is reachable, and no statement fails.                             *)

\* user_data holds at most MaxRows rows
MaxRows == 3

\* a CSV file has at most MaxCsvRows lines after its header
MaxCsvRows == 1

\* batch_size and page_size run from 1 to MaxBatch
MaxBatch == 2

\* str(uuid.uuid4()): the values of successive calls, no two of them alike
UuidPool ==
    <<"uuid-1", "uuid-2", "uuid-3", "uuid-4", "uuid-5", "uuid-6", "uuid-7", "uuid-8">>

uuid4(n) == UuidPool[n + 1]

\* lines of a CSV file as csv.reader gives them: of two, three, four and five
\* columns
CsvRows ==
    { <<"dee", "dee@x">>,
      <<"ann", "ann@x", "30">>,
      <<"id-1", "bob", "bob@x", "41">>,
      <<"id-2", "cy", "cy@x", "25">>,
      <<"id-1", "bob", "bob@x", "41", "extra">> }

\* the lines of a file after its header
CsvFiles ==
    UNION { [1..n -> CsvRows] : n \in 1..MaxCsvRows }

\* SELECT user_id FROM user_data WHERE user_id = %s; cursor.fetchone()
Exists(table, user_id) ==
    \E i \in 1..Len(table) : table[i].user_id = user_id

\* the body of the loop of insert_data for one line of the file; t holds the
\* table and the number of calls of uuid4 so far
insert_row(t, row) ==
    IF Len(row) >= 3
    THEN LET user_id == IF Len(row) < 4 THEN uuid4(t.uuid_count) ELSE row[1]
             name    == IF Len(row) < 4 THEN row[1] ELSE row[2]
             email   == IF Len(row) < 4 THEN row[2] ELSE row[3]
             age     == IF Len(row) < 4 THEN row[3] ELSE row[4]
         IN [user_data  |-> IF Exists(t.user_data, user_id)
                            THEN t.user_data
                            ELSE Append(t.user_data,
                                        [user_id |-> user_id, name |-> name,
                                         email |-> email, age |-> age]),
             uuid_count |-> IF Len(row) < 4 THEN t.uuid_count + 1 ELSE t.uuid_count]
    ELSE t

\* seed.insert_data: the loop over the lines of the file, then commit
RECURSIVE insert_data(_, _)
insert_data(t, rows) ==
    IF rows = << >> THEN t
    ELSE insert_data(insert_row(t, Head(rows)), Tail(rows))

\* how many rows and calls of uuid4 a run of insert_data can add at most
Columns3(rows) ==
    Cardinality({ i \in 1..Len(rows) : Len(rows[i]) = 3 })

NoGenerator ==
    [function |-> "none", size |-> 0, offset |-> 0, state |-> "none", stale |-> FALSE]

\* a generator object before its first next()
Generator(function, size) ==
    [function |-> function, size |-> size, offset |-> 0, state |-> "created",
     stale |-> FALSE]

\* SELECT * FROM user_data LIMIT limit OFFSET offset; cursor.fetchall()
Select(table, limit, offset) ==
    SubSeq(table, offset + 1,
           IF offset + limit < Len(table) THEN offset + limit ELSE Len(table))

\* 2-lazy_paginate.paginate_users
paginate_users(table, page_size, offset) ==
    Select(table, page_size, offset)

\* variant: the offset moves on by one row
AdvanceOffset_by_one(offset, batch_size) ==
    offset + 1

\* offset += batch_size, offset += page_size
AdvanceOffset(offset, batch_size) ==
    offset + batch_size

\* what next() does to a generator g: the statement after the yield when g is
\* suspended at it, then the loop up to the next yield or the break
Resume(g, batch_at) ==
    [generator |-> [g EXCEPT !.offset = batch_at.offset,
                             !.state = IF batch_at.batch = << >>
                                       THEN "exhausted" ELSE "suspended"],
     fetched   |-> batch_at.offset,
     yields    |-> batch_at.batch]

\* next() on a generator of stream_users_in_batches
stream_users_in_batches(g, table) ==
    LET offset == IF g.state = "suspended"
                  THEN AdvanceOffset(g.offset, g.size) ELSE g.offset
    IN Resume(g, [offset |-> offset, batch |-> Select(table, g.size, offset)])

\* next() on a generator of lazy_pagination
lazy_pagination(g, table) ==
    LET offset == IF g.state = "suspended"
                  THEN AdvanceOffset(g.offset, g.size) ELSE g.offset
    IN Resume(g, [offset |-> offset, batch |-> paginate_users(table, g.size, offset)])

------------------------------------------------------------------------------
(* messaging_app/chats/auth.py: change_password.  A password is the sequence *)
(* of its characters.  make_password encodes a raw password and              *)
(* check_password compares the encoding of a raw password with the one on    *)
(* record; salts are left out, so equal raw passwords encode alike.          *)

\* the password the user was registered with
InitialPassword == <<"s", "e", "c", "r", "e", "t", "0", "1">>

\* request.data.get(...) of a field that is absent gives None
Passwords ==
    { None, << >>,
      InitialPassword,
      <<"s", "h", "o", "r", "t", "7", "!">>,
      <<"l", "o", "n", "g", "e", "r", "8", "!">>,
      <<"a", "n", "o", "t", "h", "e", "r", "-", "9">>,
      <<"p", "a", "s", "s", "w", "o", "r", "d", "1", "0">> }

NoPasswordCall == [current_password |-> None, new_password |-> None]

\* django.contrib.auth.hashers.make_password
make_password(raw) ==
    <<"pbkdf2_sha256$">> \o raw

\* user.check_password(raw)
check_password(encoded, raw) ==
    encoded = make_password(raw)

\* variant: the length of the new password is tested after it is stored
change_password_late_check(encoded, data) ==
    LET current_password == data.current_password
        new_password == data.new_password
    IN IF current_password = None \/ current_password = << >>
          \/ new_password = None \/ new_password = << >>
       THEN [password |-> encoded, status |-> "400"]
       ELSE IF ~check_password(encoded, current_password)
       THEN [password |-> encoded, status |-> "400"]
       ELSE IF Len(new_password) < min_password_length
       THEN [password |-> make_password(new_password), status |-> "400"]
       ELSE [password |-> make_password(new_password), status |-> "200"]

\* auth.change_password for an authenticated user: the password on record
\* afterwards and the status of the response
change_password(encoded, data) ==
    LET current_password == data.current_password
        new_password == data.new_password
    IN IF current_password = None \/ current_password = << >>
          \/ new_password = None \/ new_password = << >>
       THEN [password |-> encoded, status |-> "400"]
       ELSE IF ~check_password(encoded, current_password)
       THEN [password |-> encoded, status |-> "400"]
       ELSE IF Len(new_password) < min_password_length
       THEN [password |-> encoded, status |-> "400"]
       ELSE [password |-> make_password(new_password), status |-> "200"]

------------------------------------------------------------------------------
(* State machine *)

\* worker threads that serve requests at the same time: one more than the limit
Threads == 1..(max_messages + 1)

\* locals of OffensiveLanguageMiddleware.__call__ and its callees in one thread
NoLocals == [ip |-> None, current_time |-> -1, cleaned |-> << >>,
             limited |-> FALSE, status |-> "none"]

\* the world a request is handled in
World(hour, drift) ==
    [now |-> now, ip_message_counts |-> ip_message_counts,
     hour |-> hour, drift |-> drift,
     response |-> "none", denied_by |-> "none", handler_calls |-> 0,
     log |-> << >>, visited |-> << >>, pruned |-> {}, accessed |-> {},
     inspected |-> FALSE, lookups |-> {}, limiter_time |-> -1,
     after_prune |-> << >>, forward |-> FALSE]

\* the variables after req was handled, w being the world it left, but for
\* what is on record of another request
ObserveStage(req, w, at) ==
    /\ now' = w.now
    /\ ip_message_counts' = w.ip_message_counts
    /\ request' = req
    /\ current_hour' = w.hour
    /\ entry' = at
    /\ response' = w.response
    /\ denied_by' = w.denied_by
    /\ handler_calls' = w.handler_calls
    /\ log' = w.log
    /\ visited' = w.visited
    /\ pruned' = w.pruned
    /\ accessed' = w.accessed
    /\ inspected' = w.inspected
    /\ lookups' = w.lookups
    /\ limiter_time' = w.limiter_time
    /\ prev_counts' = ip_message_counts
    /\ after_prune' = w.after_prune
    /\ UNCHANGED <<pc, local, Elsewhere>>

\* the same when no limiter runs beside the stack
ObserveGate(req, w, at) ==
    /\ ObserveStage(req, w, at)
    /\ UNCHANGED ShadowVars

\* the variables after req was handled alone
Observe(req, w, at) ==
    /\ ObserveGate(req, w, at)
    /\ other_request' = NoRequest
    /\ other_response' = "none"

Init ==
    /\ now = 0
    /\ ip_message_counts = << >>
    /\ request = NoRequest
    /\ current_hour = 0
    /\ entry = "none"
    /\ response = "none"
    /\ denied_by = "none"
    /\ handler_calls = 0
    /\ log = << >>
    /\ visited = << >>
    /\ pruned = {}
    /\ accessed = {}
    /\ inspected = FALSE
    /\ lookups = {}
    /\ other_request = NoRequest
    /\ other_response = "none"
    /\ timestamps = << >>
    /\ shadow_response = "none"
    /\ limiter_time = -1
    /\ prev_counts = << >>
    /\ after_prune = << >>
    /\ seen = 0
    /\ first_stamp = -1
    /\ pc = [t \in Threads |-> "call"]
    /\ local = [t \in Threads |-> NoLocals]
    /\ query_cache = << >>
    /\ db = 0
    /\ opened = 0
    /\ call = NoCall
    /\ trace = << >>
    /\ outcome = NoOutcome
    /\ answered = << >>
    /\ conversations = << >>
    /\ prev_conversations = << >>
    /\ api_call = NoApiCall
    /\ api_status = "none"
    /\ messages = << >>
    /\ prev_messages = << >>
    /\ password = make_password(InitialPassword)
    /\ prev_password = make_password(InitialPassword)
    /\ password_call = NoPasswordCall
    /\ password_status = "none"
    /\ user_data = << >>
    /\ uuid_count = 0
    /\ csv_file = << >>
    /\ rerun = FALSE
    /\ prev_user_data = << >>
    /\ generator = NoGenerator
    /\ fetches = << >>
    /\ yielded = << >>

\* time passes between two requests
Tick ==
    /\ response = "none"
    /\ now + TickSeconds <= MaxTime
    /\ now' = now + TickSeconds
    /\ UNCHANGED <<ip_message_counts, request, current_hour, entry, response,
                   denied_by, handler_calls, log, visited, pruned, accessed,
                   inspected, lookups, other_request, other_response,
                   limiter_time, prev_counts, after_prune, seen,
                   first_stamp, pc, local,
                   Elsewhere, ShadowVars>>

\* one request goes through the whole stack (requests are served one at a time)
Handle ==
    /\ response = "none"
    /\ \E req \in Requests, hour \in StackHours, drift \in Drifts :
        /\ now + drift <= MaxTime
        /\ Observe(req, MiddlewareChain(req, World(hour, drift)), "stack")
        /\ UNCHANGED <<seen, first_stamp>>

\* the outcome goes back to the client; what was recorded of the request is dropped
Reply ==
    /\ response # "none"
    /\ request' = NoRequest
    /\ current_hour' = 0
    /\ entry' = "none"
    /\ response' = "none"
    /\ denied_by' = "none"
    /\ handler_calls' = 0
    /\ log' = << >>
    /\ visited' = << >>
    /\ pruned' = {}
    /\ accessed' = {}
    /\ inspected' = FALSE
    /\ lookups' = {}
    /\ other_request' = NoRequest
    /\ other_response' = "none"
    /\ limiter_time' = -1
    /\ prev_counts' = << >>
    /\ after_prune' = << >>
    /\ UNCHANGED <<now, ip_message_counts, seen, first_stamp, pc, local,
                   Elsewhere, ShadowVars>>

Next == Tick \/ Handle \/ Reply

Spec == Init /\ [][Next]_vars

------------------------------------------------------------------------------
(* One client on its own: every request comes from ClientA, and the matching *)
(* ones that reach the limiter are counted.                                  *)

ClientRequests ==
    { Request(m, <<"/", "chats", "/">>, None, ClientA, PlainUser) : m \in Methods }

\* the stack serves a request of the watched client
HandleClient ==
    /\ response = "none"
    /\ \E req \in ClientRequests, hour \in StackHours, drift \in Drifts :
        /\ now + drift <= MaxTime
        /\ LET w == MiddlewareChain(req, World(hour, drift))
           IN /\ Observe(req, w, "stack")
              /\ seen' = IF w.pruned = {} THEN seen
                         ELSE IF seen > max_messages + 1 THEN seen
                         ELSE seen + 1
              /\ first_stamp' = IF w.pruned # {} /\ seen = 0 THEN w.now
                                ELSE first_stamp

ClientNext == Tick \/ HandleClient \/ Reply

ClientSpec == Init /\ [][ClientNext]_vars

------------------------------------------------------------------------------
(* The limiter on its own, behind proxies: chat POSTs arrive over two        *)
(* connections, with and without a forwarded-for header.                     *)

\* values of the X-Forwarded-For header: absent, empty, a padded list, one address
ForwardedHeaders ==
    { None,
      << >>,
      <<" ", "10.0.0.1", " ", ",", "10.0.0.9">>,
      <<"10.0.0.2">> }

ProxyRequests ==
    { Request("POST", <<"/", "chats", "/">>, x, a, AnonymousUser) :
        x \in ForwardedHeaders, a \in { ClientA, ClientB } }

\* OffensiveLanguageMiddleware(Handler)(req)
HandleProxy ==
    /\ response = "none"
    /\ \E req \in ProxyRequests, drift \in Drifts :
        /\ now + drift <= MaxTime
        /\ Observe(req, AroundHandler(req, OffensiveLanguage_call(req, World(0, drift))),
                   "proxy")
        /\ UNCHANGED <<seen, first_stamp>>

ProxyNext == Tick \/ HandleProxy \/ Reply

ProxySpec == Init /\ [][ProxyNext]_vars

------------------------------------------------------------------------------
(* Each gate on its own, wrapped directly around the view.                   *)

\* RestrictAccessByTimeMiddleware(Handler)(req)
CallTimeGate ==
    /\ response = "none"
    /\ \E req \in GateRequests, hour \in Hours :
        /\ Observe(req, AroundHandler(req, RestrictAccessByTime_call(req, World(hour, 0))),
                   "time")
        /\ UNCHANGED <<seen, first_stamp>>

\* RolepermissionMiddleware(Handler)(req)
CallRoleGate ==
    /\ response = "none"
    /\ \E req \in GateRequests :
        /\ Observe(req, AroundHandler(req, Rolepermission_call(req, World(0, 0))), "role")
        /\ UNCHANGED <<seen, first_stamp>>

GateNext == CallTimeGate \/ CallRoleGate \/ Reply

GateSpec == Init /\ [][GateNext]_vars

------------------------------------------------------------------------------
(* The time gate serves two requests one after the other within the same     *)
(* local hour; the requests differ in whatever a client can choose.          *)

PairRequests ==
    { Request(m, p, x, a, u) :
        m \in Methods,
        p \in { <<"/", "public", "/">>, <<"/", "chats", "/">>,
                <<"/", "admin", "/", "x">> },
        x \in { None, <<" ", "10.0.0.1", " ", ",", "10.0.0.9">> },
        a \in { ClientA, ClientB },
        u \in { NoUser, AnonymousUser, PlainUser, StaffUser } }

\* RestrictAccessByTimeMiddleware(Handler)(first); ...(Handler)(second)
CallTimeGateTwice ==
    /\ response = "none"
    /\ \E first \in PairRequests, second \in PairRequests, hour \in Hours :
        LET w1 == AroundHandler(first,
                                RestrictAccessByTime_call(first, World(hour, 0)))
            w2 == AroundHandler(second,
                                RestrictAccessByTime_call(second, World(hour, 0)))
        IN /\ ObserveGate(second, w2, "pair")
           /\ other_request' = first
           /\ other_response' = w1.response
           /\ UNCHANGED <<seen, first_stamp>>

PairNext == CallTimeGateTwice \/ Reply

PairSpec == Init /\ [][PairNext]_vars

------------------------------------------------------------------------------
(* OffensiveLanguageMiddleware beside a limiter that keeps, for each client, *)
(* a plain list of timestamps and counts them with len().  Both are given    *)
(* the same request and the same two readings of the clock.                  *)

\* the prune of the limiter of timestamps
_clean_expired_timestamps(stamps, ip, current_time) ==
    Store(stamps, ip,
          SelectSeq(Lookup(stamps, ip),
                    LAMBDA t : InWindow(current_time, t)))

\* the limiter of timestamps: prune, count with len(), deny or append
TimestampLimiter(req, stamps, current_time, drift) ==
    IF _is_chat_post_request(req)
    THEN LET ip == _get_client_ip(req)
             cleaned == _clean_expired_timestamps(stamps, ip, current_time)
         IN IF OverLimit(Len(cleaned[ip]))
            THEN [timestamps |-> cleaned, response |-> "403"]
            ELSE [timestamps |-> Store(cleaned, ip,
                                       Append(cleaned[ip], current_time + drift)),
                  response   |-> "200"]
    ELSE [timestamps |-> stamps, response |-> "200"]

EquivRequests ==
    ProxyRequests \cup
    { Request("GET", <<"/", "chats", "/">>, None, ClientA, AnonymousUser) }

\* one request is given to OffensiveLanguageMiddleware(Handler) and to the
\* limiter of timestamps
HandleBoth ==
    /\ response = "none"
    /\ \E req \in EquivRequests, drift \in Drifts :
        /\ now + drift <= MaxTime
        /\ ObserveStage(req,
                        AroundHandler(req, OffensiveLanguage_call(req, World(0, drift))),
                        "both")
        /\ other_request' = NoRequest
        /\ other_response' = "none"
        /\ LET shadow == TimestampLimiter(req, timestamps, now, drift)
           IN /\ timestamps' = shadow.timestamps
              /\ shadow_response' = shadow.response
        /\ UNCHANGED <<seen, first_stamp>>

EquivNext == Tick \/ HandleBoth \/ Reply

EquivSpec == Init /\ [][EquivNext]_vars

------------------------------------------------------------------------------
(* Several worker threads run OffensiveLanguageMiddleware.__call__ on the    *)
(* one middleware object at the same time, each for a matching request of    *)
(* the same client.  The code takes no lock, so the threads interleave       *)
(* between the statements that read and write self.ip_message_counts.        *)

ConcurrentRequest ==
    Request("POST", <<"/", "chats", "/">>, None, ClientA, PlainUser)

ObservationVars ==
    <<request, current_hour, entry, response, denied_by, handler_calls,
      visited, pruned, accessed, inspected, lookups, other_request,
      other_response, limiter_time, prev_counts, after_prune, seen, first_stamp>>

\* _clean_expired_entries: current_time = time.time() and the list comprehension
T_Clean(t) ==
    /\ pc[t] = "call"
    /\ _is_chat_post_request(ConcurrentRequest)
    /\ LET ip == _get_client_ip(ConcurrentRequest)
       IN local' = [local EXCEPT ![t] =
                       [@ EXCEPT !.ip = ip,
                                 !.current_time = now,
                                 !.cleaned = SelectSeq(Lookup(ip_message_counts, ip),
                                                LAMBDA e : InWindow(now, e[1]))]]
    /\ pc' = [pc EXCEPT ![t] = "store"]
    /\ UNCHANGED <<now, ip_message_counts, log>>
    /\ UNCHANGED <<ObservationVars, Elsewhere, ShadowVars>>

\* _clean_expired_entries: self.ip_message_counts[ip] = <the new list>, and
\* the function returns, which ends the life of its locals
T_Store(t) ==
    /\ pc[t] = "store"
    /\ ip_message_counts' = Store(ip_message_counts, local[t].ip, local[t].cleaned)
    /\ local' = [local EXCEPT ![t].cleaned = << >>, ![t].current_time = -1]
    /\ pc' = [pc EXCEPT ![t] = "sum"]
    /\ UNCHANGED <<now, log>>
    /\ UNCHANGED <<ObservationVars, Elsewhere, ShadowVars>>

\* _is_rate_limited: total_messages = sum(...); return total_messages >= max_messages
T_Sum(t) ==
    /\ pc[t] = "sum"
    /\ local' = [local EXCEPT ![t].limited =
                    OverLimit(SumCounts(Lookup(ip_message_counts, local[t].ip)))]
    /\ pc' = [pc EXCEPT ![t] = "decide"]
    /\ UNCHANGED <<now, ip_message_counts, log>>
    /\ UNCHANGED <<ObservationVars, Elsewhere, ShadowVars>>

\* __call__: the rate limit is reached: log and return HttpResponseForbidden
T_Deny(t) ==
    /\ pc[t] = "decide"
    /\ local[t].limited
    /\ log' = Append(log, [logger    |-> "rate_limiting_logger",
                           user_info |-> UserInfo(ConcurrentRequest),
                           ip        |-> local[t].ip])
    /\ local' = [local EXCEPT ![t].status = "403"]
    /\ pc' = [pc EXCEPT ![t] = "done"]
    /\ UNCHANGED <<now, ip_message_counts>>
    /\ UNCHANGED <<ObservationVars, Elsewhere, ShadowVars>>

\* __call__: self.ip_message_counts[ip].append((current_time, 1)) and get_response
T_Append(t) ==
    /\ pc[t] = "decide"
    /\ ~local[t].limited
    /\ ip_message_counts' = Store(ip_message_counts, local[t].ip,
                                  Append(Lookup(ip_message_counts, local[t].ip),
                                         NewEntry(now)))
    /\ local' = [local EXCEPT ![t].status = "200"]
    /\ pc' = [pc EXCEPT ![t] = "done"]
    /\ UNCHANGED <<now, log>>
    /\ UNCHANGED <<ObservationVars, Elsewhere, ShadowVars>>

ConcNext ==
    \E t \in Threads :
        T_Clean(t) \/ T_Store(t) \/ T_Sum(t) \/ T_Deny(t) \/ T_Append(t)

ConcSpec == Init /\ [][ConcNext]_vars

-------------------------------------------------------------------------------
(* The decorator scripts: calls of the three decorated functions, one after  *)
(* the other, against the one users.db.                                      *)

\* the process before a call
Process ==
    [query_cache |-> query_cache, db |-> db, opened |-> opened, pending |-> 0,
     trace |-> << >>, outcome |-> NoOutcome]

\* the variables after a call that left the process as d
Finish(d) ==
    /\ query_cache' = d.query_cache
    /\ db' = d.db
    /\ opened' = d.opened
    /\ trace' = d.trace
    /\ outcome' = d.outcome

\* fetch_users_with_cache(query) or fetch_users_with_cache(query=query)
CallFetchUsersWithCache ==
    /\ opened < MaxCalls
    /\ \E query \in Queries, positional \in BOOLEAN, raises \in BOOLEAN :
        LET args   == IF positional THEN <<query>> ELSE << >>
            kwargs == IF positional THEN KwArgs({}, query)
                      ELSE KwArgs({"query"}, query)
            d == fetch_users_with_cache(args, kwargs, [raises |-> <<raises>>],
                                        Process)
        IN /\ Finish(d)
           /\ call' = [func |-> "fetch_users_with_cache",
                       positional |-> positional, query |-> query,
                       repeated |-> query \in DOMAIN answered,
                       retries |-> 0, raises |-> <<raises>>]
           /\ answered' = IF d.outcome.kind = "return" /\ query \notin DOMAIN answered
                          THEN Store(answered, query, d.outcome.value)
                          ELSE answered
    /\ UNCHANGED <<MiddlewareVars, ChatVars, Apart>>

\* fetch_users_with_retry(), decorated with retry_on_failure(retries, delay)
CallFetchUsersWithRetry ==
    /\ opened < MaxCalls
    /\ \E retries \in 0..MaxRetries :
        \E raises \in [1..retries -> BOOLEAN] :
            LET d == fetch_users_with_retry([retries |-> retries, raises |-> raises],
                                            Process)
            IN /\ Finish(d)
               /\ call' = [func |-> "fetch_users_with_retry",
                           positional |-> FALSE, query |-> None,
                           repeated |-> FALSE,
                           retries |-> retries, raises |-> raises]
    /\ UNCHANGED <<answered, MiddlewareVars, ChatVars, Apart>>

\* update_user_email(user_id=1, new_email=...)
CallUpdateUserEmail ==
    /\ opened < MaxCalls
    /\ \E raises \in BOOLEAN :
        LET d == update_user_email(KwArgs({"user_id", "new_email"}, None),
                                   [raises |-> <<raises>>], Process)
        IN /\ Finish(d)
           /\ call' = [func |-> "update_user_email",
                       positional |-> FALSE, query |-> None,
                       repeated |-> FALSE,
                       retries |-> 0, raises |-> <<raises>>]
    /\ UNCHANGED <<answered, MiddlewareVars, ChatVars, Apart>>

ScriptNext ==
    CallFetchUsersWithCache \/ CallFetchUsersWithRetry \/ CallUpdateUserEmail

ScriptSpec == Init /\ [][ScriptNext]_vars

-------------------------------------------------------------------------------
(* The conversation API: authenticated users call create, add_participant    *)
(* and remove_participant, one call at a time.                               *)

\* the variables after an action answered r to the call c
Answer(c, r) ==
    /\ prev_conversations' = conversations
    /\ conversations' = r.conversations
    /\ api_call' = c
    /\ api_status' = r.status
    /\ prev_messages' = messages
    /\ UNCHANGED <<messages, MiddlewareVars, ScriptVars, Apart>>

\* POST /conversations/
Create ==
    /\ Len(conversations) < MaxConversations
    /\ \E requester \in Users, data \in ParticipantLists :
        Answer([action |-> "create", requester |-> requester, pk |-> 0,
                user_id |-> None, participant_ids |-> data],
               create(conversations, requester, data))

\* POST /conversations/{pk}/add_participant/
AddParticipant ==
    \E requester \in Users, pk \in 1..MaxConversations, user_id \in UserIds :
        Answer([action |-> "add_participant", requester |-> requester, pk |-> pk,
                user_id |-> user_id, participant_ids |-> << >>],
               add_participant(conversations, requester, pk, user_id))

\* DELETE /conversations/{pk}/remove_participant/
RemoveParticipant ==
    \E requester \in Users, pk \in 1..MaxConversations, user_id \in UserIds :
        Answer([action |-> "remove_participant", requester |-> requester, pk |-> pk,
                user_id |-> user_id, participant_ids |-> << >>],
               remove_participant(conversations, requester, pk, user_id))

ChatNext == Create \/ AddParticipant \/ RemoveParticipant

ChatSpec == Init /\ [][ChatNext]_vars

-------------------------------------------------------------------------------
(* Messages: the users of one conversation come and go, send messages, and   *)
(* every user tries to edit and to delete every message.                     *)

\* the variables after an action of MessageViewSet answered r to the call c
AnswerMessage(c, r) ==
    /\ prev_messages' = messages
    /\ messages' = r.messages
    /\ api_call' = c
    /\ api_status' = r.status
    /\ prev_conversations' = conversations
    /\ UNCHANGED <<conversations, MiddlewareVars, ScriptVars, Apart>>

\* POST /conversations/ with no participant_ids: a conversation of one's own
CreateOwn ==
    /\ conversations = << >>
    /\ \E requester \in Users :
        Answer([action |-> "create", requester |-> requester, pk |-> 0,
                user_id |-> None, participant_ids |-> << >>],
               create(conversations, requester, << >>))

\* POST /conversations/{pk}/add_participant/ naming a user
Invite ==
    \E requester \in Users, pk \in DOMAIN conversations, user_id \in Users :
        Answer([action |-> "add_participant", requester |-> requester, pk |-> pk,
                user_id |-> user_id, participant_ids |-> << >>],
               add_participant(conversations, requester, pk, user_id))

\* DELETE /conversations/{pk}/remove_participant/ naming a user
Dismiss ==
    \E requester \in Users, pk \in DOMAIN conversations, user_id \in Users :
        Answer([action |-> "remove_participant", requester |-> requester, pk |-> pk,
                user_id |-> user_id, participant_ids |-> << >>],
               remove_participant(conversations, requester, pk, user_id))

\* POST /messages/
SendMessage ==
    /\ Len(messages) < MaxMessages
    /\ \E requester \in Users, conversation \in DOMAIN conversations :
        AnswerMessage([action |-> "send", requester |-> requester,
                       pk |-> conversation, user_id |-> None,
                       participant_ids |-> << >>, message_body |-> <<"hello">>],
                      MessageViewSet_create(conversations, messages, requester,
                                            conversation, <<"hello">>))

\* PATCH /messages/{pk}/edit/
EditMessage ==
    \E requester \in Users, pk \in 1..MaxMessages, new_body \in NewBodies :
        AnswerMessage([action |-> "edit", requester |-> requester, pk |-> pk,
                       user_id |-> None, participant_ids |-> << >>,
                       message_body |-> new_body],
                      edit(conversations, messages, requester, pk, new_body))

\* DELETE /messages/{pk}/
DestroyMessage ==
    \E requester \in Users, pk \in 1..MaxMessages :
        AnswerMessage([action |-> "destroy", requester |-> requester, pk |-> pk,
                       user_id |-> None, participant_ids |-> << >>,
                       message_body |-> None],
                      destroy(conversations, messages, requester, pk))

MessageNext ==
    CreateOwn \/ Invite \/ Dismiss \/ SendMessage \/ EditMessage \/ DestroyMessage

MessageSpec == Init /\ [][MessageNext]_vars

------------------------------------------------------------------------------
(* The seeding script and the generators: insert_data is run on one CSV file *)
(* after the other, and a script holds one generator at a time and calls     *)
(* next() on it.                                                             *)

\* seed.insert_data(connection, csv_file)
InsertData ==
    /\ \E rows \in CsvFiles :
        /\ uuid_count + Columns3(rows) <= Len(UuidPool)
        /\ LET t == insert_data([user_data |-> user_data, uuid_count |-> uuid_count],
                                rows)
           IN /\ Len(t.user_data) <= MaxRows
              /\ user_data' = t.user_data
              /\ uuid_count' = t.uuid_count
              /\ generator' = IF generator.state # "none" /\ t.user_data # user_data
                              THEN [generator EXCEPT !.stale = TRUE]
                              ELSE generator
        /\ csv_file' = rows
        /\ rerun' = (csv_file = rows)
        /\ prev_user_data' = user_data
    /\ UNCHANGED <<fetches, yielded, MiddlewareVars, ScriptVars, ChatVars, AuthVars>>

\* stream_users_in_batches(batch_size): the call makes the generator object
CallStreamUsersInBatches ==
    /\ \E batch_size \in 1..MaxBatch :
        generator' = Generator("stream_users_in_batches", batch_size)
    /\ fetches' = << >>
    /\ yielded' = << >>
    /\ UNCHANGED <<user_data, uuid_count, csv_file, rerun, prev_user_data,
                   MiddlewareVars, ScriptVars, ChatVars, AuthVars>>

\* lazy_pagination(page_size): the call makes the generator object
CallLazyPagination ==
    /\ \E page_size \in 1..MaxBatch :
        generator' = Generator("lazy_pagination", page_size)
    /\ fetches' = << >>
    /\ yielded' = << >>
    /\ UNCHANGED <<user_data, uuid_count, csv_file, rerun, prev_user_data,
                   MiddlewareVars, ScriptVars, ChatVars, AuthVars>>

\* next(generator)
NextBatch ==
    /\ generator.state \in {"created", "suspended"}
    /\ LET r == IF generator.function = "lazy_pagination"
                THEN lazy_pagination(generator, user_data)
                ELSE stream_users_in_batches(generator, user_data)
       IN /\ generator' = r.generator
          /\ fetches' = Append(fetches, r.fetched)
          /\ yielded' = IF r.yields = << >> THEN yielded ELSE Append(yielded, r.yields)
    /\ UNCHANGED <<user_data, uuid_count, csv_file, rerun, prev_user_data,
                   MiddlewareVars, ScriptVars, ChatVars, AuthVars>>

DataNext ==
    InsertData \/ CallStreamUsersInBatches \/ CallLazyPagination \/ NextBatch

DataSpec == Init /\ [][DataNext]_vars

------------------------------------------------------------------------------
(* change_password: the authenticated user posts one request after the other *)

\* POST to change_password
ChangePassword ==
    /\ \E current_password \in Passwords, new_password \in Passwords :
        LET data == [current_password |-> current_password,
                     new_password |-> new_password]
            r == change_password(password, data)
        IN /\ password' = r.password
           /\ password_status' = r.status
           /\ password_call' = data
    /\ prev_password' = password
    /\ UNCHANGED <<MiddlewareVars, ScriptVars, ChatVars, DataVars>>

AuthNext == ChangePassword

AuthSpec == Init /\ [][AuthNext]_vars

------------------------------------------------------------------------------
(* Properties *)

TimeGate == "RestrictAccessByTimeMiddleware"

Limiter == "OffensiveLanguageMiddleware"

RoleGate == "RolepermissionMiddleware"

\* a request has been handled and its outcome is on record
Handled == response # "none"

\* the applicability predicate, stated on the request itself
IsChatPost(req) ==
    /\ req.method = "POST"
    /\ \/ Contains(req.path, <<"/", "chats", "/">>)
       \/ Contains(req.path, <<"/", "messages", "/">>)
       \/ Contains(req.path, <<"/", "send_message", "/">>)
       \/ Contains(req.path, <<"/", "api", "/", "messages", "/">>)

\* middleware mw ran and handed the request to its get_response
PassedOn(mw) ==
    /\ \E i \in 1..Len(visited) : visited[i] = mw
    /\ denied_by # mw
    /\ visited[Len(visited)] = mw => handler_calls = 1

\* the entries of a list whose age at time t is below the window
Fresh(entries, t) ==
    SelectSeq(entries, LAMBDA e : t - e[1] < 60)

\* C1: for one client handled sequentially, the 6th matching request is denied
\* with a 403 when it reaches the limiter less than 60 s after the first was
\* recorded, and is allowed and handed to the handler when 60 s or more have
\* passed since then.
C1_SixthRequest ==
    (Handled /\ pruned # {} /\ seen = 6) =>
        /\ limiter_time - first_stamp < 60 =>
              /\ response = "403"
              /\ denied_by = Limiter
              /\ handler_calls = 0
        /\ limiter_time - first_stamp >= 60 =>
              /\ response = "200"
              /\ PassedOn(Limiter)
              /\ handler_calls = 1

\* the 6th request arrives exactly 60 s after the first and is served
C1_Witness ==
    /\ Handled /\ pruned # {} /\ seen = 6
    /\ limiter_time - first_stamp = 60
    /\ response = "200"

\* C3: a request that is not a chat POST leaves ip_message_counts as it was,
\* touches no key of it, and is handed on by the limiter, whatever the state
\* of its client's window.
C3_NotApplicableUntouched ==
    (Handled /\ entry = "stack" /\ denied_by # TimeGate /\ ~IsChatPost(request)) =>
        /\ ip_message_counts = prev_counts
        /\ accessed = {}
        /\ pruned = {}
        /\ PassedOn(Limiter)

\* a GET of a client whose window is full reaches the handler
C3_Witness ==
    /\ Handled /\ entry = "stack" /\ ~IsChatPost(request)
    /\ Len(Fresh(Lookup(ip_message_counts, _get_client_ip(request)), now)) >= 5
    /\ response = "200"
    /\ handler_calls = 1

\* C4: when one of the three gates denies, the handler does not run for that
\* request, the outcome is the 403 of that gate, and no later stage ran.
C4_DenyStopsRequest ==
    /\ denied_by # "none" =>
          /\ response = "403"
          /\ handler_calls = 0
          /\ visited[Len(visited)] = denied_by
    /\ response = "403" => denied_by \in {TimeGate, Limiter, RoleGate}
    /\ handler_calls <= 1

\* the innermost gate denies
C4_Witness ==
    /\ entry = "stack"
    /\ denied_by = RoleGate
    /\ response = "403"
    /\ handler_calls = 0

\* the logger each gate writes to; the role gate has none
GateLogger(gate) ==
    CASE gate = TimeGate -> "access_restriction_logger"
      [] gate = Limiter  -> "rate_limiting_logger"
      [] OTHER           -> "no logger"

\* number of records gate wrote for the request on record
Records(gate) ==
    Cardinality({i \in 1..Len(log) : log[i].logger = GateLogger(gate)})

C6_DeniedHours ==
    (Handled /\ entry = "time") =>
        /\ current_hour \in {19, 20} =>
              response = "403" /\ denied_by = TimeGate /\ handler_calls = 0
        /\ current_hour \in (0..18) \cup (21..23) =>
              response = "200" /\ denied_by = "none" /\ handler_calls = 1

\* the boundary hour 21 is served
C6_Witness ==
    /\ entry = "time"
    /\ current_hour = 21
    /\ response = "200"

\* the path begins with one of the protected prefixes
UnderProtectedPrefix(path) ==
    \E prefix \in { <<"/", "admin", "/">>, <<"/", "dashboard", "/">>,
                    <<"/", "manage", "/">>, <<"/", "chats", "/", "delete", "/">>,
                    <<"/", "chats", "/", "moderate", "/">>,
                    <<"/", "users", "/", "manage", "/">>,
                    <<"/", "api", "/", "admin", "/">>, <<"/", "reports", "/">> } :
        StartsWith(path, prefix)

\* the principal carries the role or a group named admin or moderator
HasModeratorRole(user) ==
    \/ user.has_role /\ user.role \in {"admin", "moderator"}
    \/ user.has_groups /\ user.groups \cap {"admin", "moderator"} # {}

\* C7: on a protected path the role gate denies an authenticated principal
\* that is neither staff nor superuser and has no admin/moderator role or
\* group, and allows an authenticated one that is staff or has such a role or
\* group; on any other path it allows every principal without reading it.
C7_RoleGate ==
    (Handled /\ entry = "role") =>
        LET user == request.user
        IN /\ (/\ UnderProtectedPrefix(request.path)
               /\ user.present /\ user.is_authenticated
               /\ ~user.is_staff /\ ~user.is_superuser
               /\ ~HasModeratorRole(user)) =>
                  response = "403" /\ denied_by = RoleGate /\ handler_calls = 0
           /\ (/\ UnderProtectedPrefix(request.path)
               /\ user.present /\ user.is_authenticated
               /\ (user.is_staff \/ HasModeratorRole(user))) =>
                  response = "200" /\ handler_calls = 1
           /\ ~UnderProtectedPrefix(request.path) =>
                  response = "200" /\ handler_calls = 1 /\ ~inspected

\* a principal whose only qualification is the role field gets through
C7_Witness ==
    /\ entry = "role"
    /\ UnderProtectedPrefix(request.path)
    /\ request.user.is_authenticated
    /\ ~request.user.is_staff /\ ~request.user.is_superuser
    /\ request.user.role = "moderator"
    /\ request.user.groups = {}
    /\ response = "200"

\* C8: the stages run in the order time gate, rate limiter, role gate,
\* handler, each only if every earlier one allowed; the limiter's window is
\* looked at only for a chat POST and the principal only on a protected path;
\* a request the time gate denies leaves the limiter's map unread and as it
\* was.
C8_GateOrder ==
    (Handled /\ entry = "stack") =>
        /\ Len(visited) \in 1..3
        /\ visited = SubSeq(<<TimeGate, Limiter, RoleGate>>, 1, Len(visited))
        /\ handler_calls = 1 => (Len(visited) = 3 /\ denied_by = "none")
        /\ denied_by = TimeGate =>
              /\ visited = <<TimeGate>>
              /\ accessed = {} /\ pruned = {}
              /\ ip_message_counts = prev_counts
              /\ ~inspected
        /\ denied_by = Limiter => (visited = <<TimeGate, Limiter>> /\ ~inspected)
        /\ accessed # {} => IsChatPost(request)
        /\ inspected => UnderProtectedPrefix(request.path)

\* the time gate turns away a chat POST of a client with entries on record
C8_Witness ==
    /\ entry = "stack"
    /\ denied_by = TimeGate
    /\ IsChatPost(request)
    /\ Lookup(ip_message_counts, _get_client_ip(request)) # << >>
    /\ Lookup(ip_message_counts, _get_client_ip(request))[1][1] + 60 <= now

\* C9: for a chat POST that reaches it the limiter first reduces the client's
\* list to the entries younger than 60 s; with 5 or more of them left it
\* denies and the list stays as pruned; otherwise it appends the one entry
\* (current time, 1) and hands the request on.  No other key changes.
C9_AdmissionStep ==
    (Handled /\ pruned # {}) =>
        LET ip == _get_client_ip(request)
            kept == Fresh(Lookup(prev_counts, ip), limiter_time)
        IN /\ pruned = {ip}
           /\ after_prune[ip] = kept
           /\ Len(kept) >= 5 =>
                 /\ denied_by = Limiter /\ response = "403"
                 /\ ip_message_counts[ip] = kept
           /\ Len(kept) < 5 =>
                 /\ PassedOn(Limiter)
                 /\ ip_message_counts[ip] = Append(kept, <<now, 1>>)
           /\ \A k \in DOMAIN prev_counts \ {ip} :
                 ip_message_counts[k] = prev_counts[k]

\* a prune that drops some entries and keeps others, followed by an append
C9_Witness ==
    /\ Handled /\ pruned # {}
    /\ LET ip == _get_client_ip(request)
       IN /\ Len(after_prune[ip]) > 0
          /\ Len(after_prune[ip]) < Len(Lookup(prev_counts, ip))
          /\ Len(ip_message_counts[ip]) = Len(after_prune[ip]) + 1

\* C10: right after a prune at time t every timestamp kept for the pruned
\* client lies in [t - 60, t]; a list changes only in a step that handles a
\* chat POST of that very client, so no other key is pruned and nothing is
\* swept between requests.
C10_LazyPrune ==
    [][ /\ \A k \in pruned' :
            /\ Handled'
            /\ k = _get_client_ip(request')
            /\ IsChatPost(request')
            /\ \A i \in 1..Len(after_prune'[k]) :
                  /\ after_prune'[k][i][1] >= limiter_time' - 60
                  /\ after_prune'[k][i][1] <= limiter_time'
        /\ \A k \in DOMAIN ip_message_counts' :
            (k \notin DOMAIN ip_message_counts
               \/ ip_message_counts'[k] # ip_message_counts[k]) =>
                  k \in pruned'
        /\ DOMAIN ip_message_counts \subseteq DOMAIN ip_message_counts'
      ]_vars

\* a prune has dropped stale entries of one client and kept another client's
C10_Witness ==
    /\ Handled /\ pruned # {}
    /\ \E k \in pruned : Len(after_prune[k]) < Len(Lookup(prev_counts, k))
    /\ \E k \in DOMAIN prev_counts \ pruned :
          /\ prev_counts[k] # << >>
          /\ prev_counts[k][1][1] + 60 <= limiter_time
          /\ ip_message_counts[k] = prev_counts[k]

\* C2 as claimed: when 6 threads have served 6 simultaneous chat POSTs of one
\* client whose window was empty, exactly 5 were admitted and 1 was denied.
C2_NoOverAdmission ==
    (\A t \in Threads : pc[t] = "done") =>
        /\ Cardinality({t \in Threads : local[t].status = "200"}) = max_messages
        /\ Cardinality({t \in Threads : local[t].status = "403"}) =
               Cardinality(Threads) - max_messages

\* ---------------------------------------------------------------------------
\* C11  Missing identity information never fails a request: a request with
\* no forwarded-for header and an unauthenticated or absent principal is
\* answered by the gate it was given to with the handler's response or
\* with a 403, and no exception is raised.
\* RolepermissionMiddleware.__call__ reads request.user unguarded, so a
\* request that carries no user attribute and asks for a protected path
\* ends in AttributeError.
MissingIdentity ==
    /\ request.HTTP_X_FORWARDED_FOR = None
    /\ (~request.user.present \/ ~request.user.is_authenticated)

C11_NeverRaises ==
    (Handled /\ MissingIdentity) => response \in {"200", "403"}

\* ---------------------------------------------------------------------------
\* C12  In _has_admin_permissions an unauthenticated principal is rejected
\* whatever its other flags; for an authenticated one is_superuser or
\* is_staff grants access and neither groups nor role is probed or read; a
\* principal with no role attribute and no matching group is refused and no
\* absent attribute is read, so the refusal is a 403 and not an exception.
\* (Seen through the role gate on a protected path, where the 403 is the
\* function's False and the 200 its True.)
GroupOrRoleLookups == {"hasattr:groups", "groups", "hasattr:role", "role"}

C12_PermissionPrecedence ==
    (Handled /\ entry = "role" /\ inspected /\ request.user.present) =>
        LET user == request.user
        IN /\ ~user.is_authenticated =>
                 response = "403" /\ handler_calls = 0
           /\ (user.is_authenticated /\ (user.is_superuser \/ user.is_staff)) =>
                 /\ response = "200"
                 /\ lookups \cap GroupOrRoleLookups = {}
           /\ (/\ user.is_authenticated
               /\ ~user.is_superuser /\ ~user.is_staff
               /\ ~user.has_role
               /\ ~(user.has_groups /\ user.groups \cap {"admin", "moderator"} # {})) =>
                 /\ response = "403"
                 /\ "hasattr:role" \in lookups
                 /\ "role" \notin lookups
           /\ ("groups" \in lookups => user.has_groups)
           /\ ("role" \in lookups => user.has_role)

\* a staff member who is in the moderator group too gets in on the flag alone
C12_Witness ==
    /\ entry = "role"
    /\ inspected
    /\ request.user.is_authenticated
    /\ request.user.is_staff /\ ~request.user.is_superuser
    /\ request.user.groups = {"moderator"}
    /\ response = "200"
    /\ lookups = FlagLookups

\* a principal without a role attribute and outside the named groups is told 403
C12_RolelessWitness ==
    /\ entry = "role"
    /\ inspected
    /\ request.user.is_authenticated
    /\ ~request.user.has_role
    /\ request.user.groups = {"editors"}
    /\ response = "403"

\* ---------------------------------------------------------------------------
\* C13  A client's entry in ip_message_counts is created by the first
\* request of that client the limiter counts, and is never destroyed: in
\* every step the set of keys only grows, a key that appears is the identity
\* of the chat POST just handled, every chat POST the limiter has seen
\* leaves its key in the map, and a key whose timestamps have all been
\* pruned is still there (with the empty list).
ReachedLimiter(stages) ==
    \E i \in 1..Len(stages) : stages[i] = Limiter

C13_KeysOnlyGrow ==
    [][ /\ DOMAIN ip_message_counts \subseteq DOMAIN ip_message_counts'
        /\ \A k \in DOMAIN ip_message_counts' \ DOMAIN ip_message_counts :
              /\ Handled'
              /\ IsChatPost(request')
              /\ k = _get_client_ip(request')
        /\ (Handled' /\ IsChatPost(request') /\ ReachedLimiter(visited')) =>
              _get_client_ip(request') \in DOMAIN ip_message_counts'
      ]_vars

\* a client known from before whose every timestamp has just been pruned away
\* while another client, all of whose entries are as old, was left alone
C13_Witness ==
    /\ Handled
    /\ \E k \in pruned :
          /\ k \in DOMAIN prev_counts
          /\ prev_counts[k] # << >>
          /\ after_prune[k] = << >>
          /\ k \in DOMAIN ip_message_counts
    /\ \E k \in DOMAIN ip_message_counts \ pruned :
          /\ ip_message_counts[k] # << >>
          /\ \A i \in 1..Len(ip_message_counts[k]) :
                ip_message_counts[k][i][1] + time_window <= limiter_time

\* ---------------------------------------------------------------------------
\* C14  The decision of the time gate does not depend on who asks: two
\* requests served by the gate at the same local hour are both let through
\* to the handler or both denied, whatever principal, remote address,
\* forwarded-for header, path and method each of them carries.
C14_SameHourSameDecision ==
    (Handled /\ entry = "pair") =>
        /\ response \in {"200", "403"}
        /\ other_response = response

\* an anonymous GET and a staff member's POST from elsewhere share the denial
C14_Witness ==
    /\ entry = "pair"
    /\ current_hour = 19
    /\ response = "403" /\ other_response = "403"
    /\ request.user.present /\ request.user.is_staff
    /\ ~other_request.user.present
    /\ request.method # other_request.method
    /\ request.path # other_request.path
    /\ request.REMOTE_ADDR # other_request.REMOTE_ADDR
    /\ request.HTTP_X_FORWARDED_FOR # other_request.HTTP_X_FORWARDED_FOR

\* ---------------------------------------------------------------------------
\* C15  The limiter identifies the client by the forwarded-for header when
\* the header is present and non-empty: the identity is then the header's
\* first comma-separated element without the blanks around it, and
\* REMOTE_ADDR otherwise.  The request is pruned, counted and recorded under
\* that identity alone, so requests with the same first element share one
\* window whatever connection they arrive on.

\* k is the text before the first comma of header, less the blanks around it
IsFirstElementStripped(header, k) ==
    \E i \in 0..Len(header), j \in 0..Len(header) :
        LET end == i + Len(k) + j
        IN /\ end <= Len(header)
           /\ \A n \in 1..i : header[n] = " "
           /\ SubSeq(header, i + 1, i + Len(k)) = k
           /\ \A n \in (i + Len(k) + 1)..end : header[n] = " "
           /\ end = Len(header) \/ header[end + 1] = ","
           /\ \A n \in 1..Len(k) : k[n] # ","
           /\ k = << >> \/ (k[1] # " " /\ k[Len(k)] # " ")

IsIdentityOf(req, k) ==
    IF req.HTTP_X_FORWARDED_FOR # None /\ req.HTTP_X_FORWARDED_FOR # << >>
    THEN IsFirstElementStripped(req.HTTP_X_FORWARDED_FOR, k)
    ELSE k = req.REMOTE_ADDR

C15_ForwardedIdentity ==
    (Handled /\ entry = "proxy") =>
        \E k \in DOMAIN ip_message_counts :
            /\ IsIdentityOf(request, k)
            /\ pruned = {k} /\ accessed = {k}
            /\ \A other \in DOMAIN ip_message_counts \ {k} :
                  /\ other \in DOMAIN prev_counts
                  /\ ip_message_counts[other] = prev_counts[other]
            /\ response = "200" =>
                  Len(ip_message_counts[k]) = Len(after_prune[k]) + 1
            /\ response = "403" =>
                  /\ SumCounts(after_prune[k]) >= max_messages
                  /\ ip_message_counts[k] = after_prune[k]

\* a request that names 10.0.0.1 in the header is denied on the strength of
\* that client's window, though it came over the connection 10.0.0.2, for
\* which nothing has ever been recorded
C15_Witness ==
    /\ entry = "proxy"
    /\ request.HTTP_X_FORWARDED_FOR = <<" ", "10.0.0.1", " ", ",", "10.0.0.9">>
    /\ request.REMOTE_ADDR = ClientB
    /\ response = "403"
    /\ pruned = {ClientA}
    /\ ClientB \notin DOMAIN ip_message_counts

\* ---------------------------------------------------------------------------
\* C16  cache_query caches by the query, passed by keyword or by position:
\* a call of fetch_users_with_cache with a query that an earlier call has
\* returned rows for does not execute the function again and returns the
\* rows cached then.
\* With the query passed by position the key the wrapper takes is args[0],
\* which under with_db_connection is the connection, a new object in every
\* call; the rows are stored under it and never found again.
C16_SecondCallCached ==
    (call.func = "fetch_users_with_cache" /\ call.repeated) =>
        /\ Count(trace, "fetch_users_with_cache") = 0
        /\ outcome = [kind |-> "return", value |-> answered[call.query]]

\* ---------------------------------------------------------------------------
\* C17  retry_on_failure(retries = R) calls the function at most R times in
\* one invocation; it stops at the first execution that does not raise and
\* returns what that execution returned; when all R executions raise it
\* raises Exception("All attempts failed"); it sleeps only between attempts.

\* the first execution that would not raise, or 0 when every one raises
FirstSuccess(raises) ==
    IF \E i \in 1..Len(raises) : ~raises[i]
    THEN CHOOSE i \in 1..Len(raises) :
            ~raises[i] /\ \A j \in 1..(i - 1) : raises[j]
    ELSE 0

C17_BoundedRetry ==
    (call.func = "fetch_users_with_retry") =>
        LET executions == Count(trace, "fetch_users_with_retry")
            first == FirstSuccess(call.raises)
        IN /\ executions <= call.retries
           /\ first > 0 =>
                /\ executions = first
                /\ outcome = [kind |-> "return",
                              value |-> <<"rows of execution", ToString(first)>>]
                /\ Count(trace, "sleep") = first - 1
           /\ first = 0 =>
                /\ executions = call.retries
                /\ outcome = [kind |-> "raise",
                              value |-> <<"Exception", "All attempts failed">>]
                /\ Count(trace, "sleep") =
                      IF call.retries = 0 THEN 0 ELSE call.retries - 1

\* the third and last attempt succeeds after two failures
C17_Witness ==
    /\ call.func = "fetch_users_with_retry"
    /\ call.retries = 3
    /\ call.raises = <<TRUE, TRUE, FALSE>>
    /\ Count(trace, "fetch_users_with_retry") = 3
    /\ outcome.kind = "return"

\* every attempt fails and the wrapper gives up
C17_GivesUpWitness ==
    /\ call.func = "fetch_users_with_retry"
    /\ call.retries = 3
    /\ call.raises = <<TRUE, TRUE, TRUE>>
    /\ outcome.kind = "raise"

\* ---------------------------------------------------------------------------
\* C18  with_db_connection opens exactly one connection per call of the
\* decorated function, hands that connection to the function as its first
\* argument, and closes it exactly once, as the last thing before the caller
\* gets control back, whether the function returned or raised; what the
\* function raised reaches the caller.
FunctionEvents ==
    {"fetch_users_with_cache", "fetch_users_with_retry", "update_user_email"}

\* whether the call's last execution of the function raised
LastExecutionRaised ==
    CASE call.func = "fetch_users_with_retry" -> FirstSuccess(call.raises) = 0
      [] OTHER -> call.raises[1]

C18_OneConnection ==
    (call.func # "none") =>
        /\ Count(trace, "connect") = 1
        /\ Count(trace, "close") = 1
        /\ trace[1] = [op |-> "connect", conn |-> Connection(opened)]
        /\ trace[Len(trace)] = [op |-> "close", conn |-> Connection(opened)]
        /\ \A i \in 1..Len(trace) :
              trace[i].op \in FunctionEvents => trace[i].conn = Connection(opened)
        /\ outcome.kind \in {"return", "raise"}
        /\ (Count(trace, call.func) > 0 /\ LastExecutionRaised) =>
              outcome.kind = "raise"

\* the UPDATE fails, the connection is closed all the same, the caller sees
\* the error
C18_Witness ==
    /\ call.func = "update_user_email"
    /\ call.raises = <<TRUE>>
    /\ outcome = [kind |-> "raise", value |-> <<"sqlite3.Error">>]
    /\ trace[Len(trace)].op = "close"
    /\ opened = 2

\* ---------------------------------------------------------------------------
\* C19  transactional runs BEGIN, then the function, then exactly one of
\* commit (the function returned; its result is returned) and rollback (the
\* function raised; the exception is raised again); never both, and under
\* with_db_connection the one of them comes before the close.
Ops(events) == [i \in 1..Len(events) |-> events[i].op]

C19_CommitXorRollback ==
    (call.func = "update_user_email") =>
        /\ ~call.raises[1] =>
              /\ Ops(trace) = <<"connect", "BEGIN", "update_user_email",
                                "commit", "close">>
              /\ outcome = [kind |-> "return", value |-> None]
        /\ call.raises[1] =>
              /\ Ops(trace) = <<"connect", "BEGIN", "update_user_email",
                                "rollback", "close">>
              /\ outcome = [kind |-> "raise", value |-> <<"sqlite3.Error">>]
        /\ Count(trace, "commit") + Count(trace, "rollback") = 1
        /\ \A i \in 1..Len(trace) : trace[i].conn = Connection(opened)

\* a failed update is rolled back after an earlier one was committed
C19_Witness ==
    /\ call.func = "update_user_email"
    /\ call.raises = <<TRUE>>
    /\ Count(trace, "rollback") = 1
    /\ db = 1

\* ---------------------------------------------------------------------------
\* C20  remove_participant never removes the last participant: called on a
\* conversation that has at most one participant it answers 400 and leaves
\* the participants as they are, and so after any sequence of create,
\* add_participant and remove_participant calls every conversation has at
\* least one participant.
NeverEmpty ==
    \A pk \in DOMAIN conversations : conversations[pk] # {}

\* the call made last was remove_participant on a conversation that had no
\* more than one participant
RemoveFromSmall ==
    /\ api_call.action = "remove_participant"
    /\ api_call.pk \in DOMAIN prev_conversations
    /\ Cardinality(prev_conversations[api_call.pk]) <= 1

C20_LastParticipantKept ==
    /\ NeverEmpty
    /\ RemoveFromSmall =>
          api_status = "400" /\ conversations = prev_conversations

\* C20, as the code has it: on a conversation with at most one participant
\* remove_participant leaves the participants as they are and answers 400
\* only when the requester takes part in the conversation and user_id is
\* missing or names a user; it answers 404 when the requester does not take
\* part or user_id is a UUID of no user, and fails (500) when user_id is no
\* UUID.  Every conversation has at least one participant at all times.
C20_LastParticipantKeptAmended ==
    /\ NeverEmpty
    /\ RemoveFromSmall =>
          /\ conversations = prev_conversations
          /\ api_status =
                IF api_call.requester \notin prev_conversations[api_call.pk]
                THEN "404"
                ELSE IF api_call.user_id = None THEN "400"
                ELSE IF api_call.user_id = Malformed THEN "500"
                ELSE IF api_call.user_id \notin Users THEN "404"
                ELSE "400"

\* the only participant asks to be removed and is told 400
C20_Witness ==
    /\ api_call.action = "remove_participant"
    /\ api_call.pk \in DOMAIN prev_conversations
    /\ prev_conversations[api_call.pk] = {api_call.requester}
    /\ api_call.user_id = api_call.requester
    /\ api_status = "400"
    /\ conversations[api_call.pk] = {api_call.requester}

\* ---------------------------------------------------------------------------
\* C21  Only its sender can edit or delete a message: when an authenticated
\* user who is not the sender calls MessageViewSet.edit or
\* MessageViewSet.destroy on a message, the answer is 403, or 404 when that
\* user does not take part in the message's conversation, and the message is
\* still there with the body it had; whenever one of the two actions has
\* changed a message, the caller was its sender.
OnMessage ==
    /\ api_call.action \in {"edit", "destroy"}
    /\ api_call.pk \in DOMAIN prev_messages
    /\ prev_messages[api_call.pk].exists

C21_OutsiderWitness ==
    /\ OnMessage
    /\ api_call.action = "destroy"
    /\ api_call.requester \notin conversations[prev_messages[api_call.pk].conversation]
    /\ api_status = "404"
    /\ messages[api_call.pk].exists

\* the timestamps of a list of (timestamp, count) pairs
Stamps(entries) ==
    [i \in 1..Len(entries) |-> entries[i][1]]

\* C22: run side by side on the same requests, the limiter that sums the counts
\* of its (timestamp, count) pairs and the limiter that takes the length of a
\* list of timestamps answer alike at every step and hold the same timestamps,
\* every stored pair having the count 1
C22_SameDecisions ==
    /\ \A ip \in DOMAIN ip_message_counts :
          \A i \in 1..Len(ip_message_counts[ip]) : ip_message_counts[ip][i][2] = 1
    /\ entry = "both" =>
          /\ DOMAIN timestamps = DOMAIN ip_message_counts
          /\ \A ip \in DOMAIN timestamps : timestamps[ip] = Stamps(ip_message_counts[ip])
          /\ Handled => shadow_response = response

\* both limiters turn a client away that has filled its window
C22_Witness ==
    /\ entry = "both"
    /\ response = "403"
    /\ shadow_response = "403"
    /\ \E ip \in DOMAIN timestamps : Len(timestamps[ip]) = max_messages

\* the rows of a sequence of batches, one after the other
RECURSIVE Concat(_)
Concat(batches) ==
    IF batches = << >> THEN << >>
    ELSE Head(batches) \o Concat(Tail(batches))

\* the generator has run on the table as it still is
Iterated ==
    /\ generator.state \in {"suspended", "exhausted"}
    /\ ~generator.stale

\* C23: on a table that does not change, both generators fetch at the offsets
\* 0, b, 2b, ..., yield each fetch that is not empty, a batch of at most b rows,
\* so that the batches one after the other are the rows of the table in query
\* order, each row once, and end at the first empty fetch; over an empty table
\* they yield nothing
C23_BatchesCoverTable ==
    Iterated =>
      /\ \A i \in 1..Len(fetches) : fetches[i] = (i - 1) * generator.size
      /\ \A i \in 1..Len(yielded) :
            /\ yielded[i] # << >>
            /\ Len(yielded[i]) <= generator.size
            /\ yielded[i] = Select(user_data, generator.size, fetches[i])
      /\ Concat(yielded) = SubSeq(user_data, 1, Len(Concat(yielded)))
      /\ \A i, j \in 1..Len(Concat(yielded)) :
            Concat(yielded)[i] = Concat(yielded)[j] => i = j
      /\ generator.state = "suspended" => Len(fetches) = Len(yielded)
      /\ generator.state = "exhausted" =>
            /\ Len(fetches) = Len(yielded) + 1
            /\ Select(user_data, generator.size, fetches[Len(fetches)]) = << >>
            /\ Concat(yielded) = user_data
            /\ user_data = << >> => yielded = << >>

\* stream_users_in_batches(2) has gone through a table of three rows
C23_Witness ==
    /\ Iterated
    /\ generator.function = "stream_users_in_batches"
    /\ generator.state = "exhausted"
    /\ generator.size = 2
    /\ Len(user_data) = 3
    /\ Len(yielded) = 2
    /\ fetches = <<0, 2, 4>>

\* lazy_pagination(2) has gone through a table of three rows
C23_LazyWitness ==
    /\ Iterated
    /\ generator.function = "lazy_pagination"
    /\ generator.state = "exhausted"
    /\ generator.size = 2
    /\ Len(user_data) = 3
    /\ Len(yielded) = 2
    /\ Len(yielded[2]) = 1

\* a generator over the empty table has ended without a batch
C23_EmptyWitness ==
    /\ Iterated
    /\ generator.state = "exhausted"
    /\ user_data = << >>
    /\ yielded = << >>
    /\ fetches = <<0>>

\* the rows of a table, whatever their order
RowSet(table) ==
    { table[i] : i \in 1..Len(table) }

\* C24: insert_data is idempotent: a second run on the same CSV file leaves
\* user_data with the rows the first run left, whether the lines of the file
\* have three columns or four and more
C24_Idempotent ==
    rerun =>
      /\ RowSet(user_data) = RowSet(prev_user_data)
      /\ Len(user_data) = Len(prev_user_data)

\* the password on record was changed by the call made last
PasswordChanged == password # prev_password

\* the call made last is one that change_password rejects
Rejected ==
    \/ password_call.current_password \in {None, << >>}
    \/ password_call.new_password \in {None, << >>}
    \/ ~check_password(prev_password, password_call.current_password)
    \/ Len(password_call.new_password) < min_password_length

\* C25: change_password stores a new password only for a call that gives the
\* current password and a new one of eight characters or more; every call
\* that lacks a field, gives a wrong current password or a new one of fewer
\* than eight characters is answered with 400 and leaves the password on
\* record as it was
C25_RejectedUnchanged ==
    password_status # "none" =>
      /\ PasswordChanged =>
            /\ check_password(prev_password, password_call.current_password)
            /\ Len(password_call.new_password) >= min_password_length
            /\ password = make_password(password_call.new_password)
      /\ Rejected =>
            /\ password_status = "400"
            /\ password = prev_password
      /\ ~Rejected => password_status = "200"

\* the right current password with a new one of seven characters: 400, and
\* the password is as before
C25_Witness ==
    /\ password_status = "400"
    /\ check_password(prev_password, password_call.current_password)
    /\ Len(password_call.new_password) = 7
    /\ password = prev_password

\* a password that was changed before is given wrongly: 400
C25_WrongCurrentWitness ==
    /\ password_status = "400"
    /\ prev_password # make_password(InitialPassword)
    /\ password_call.current_password = InitialPassword
    /\ Len(password_call.new_password) >= min_password_length
    /\ password = prev_password

====
